---- MODULE Spec2Model ----
(***************************************************************************)
(* Model of the fraud-detection orchestration graph of                    *)
(* backend/langchain/workflow_graph.py: the Decision Node (llm_node), the *)
(* Tool Dispatcher (tool_node) and the Termination Router                 *)
(* (should_continue), wired as START -> llm -> should_continue ->         *)
(* {tool_node -> llm, llm, END}.                                          *)
(*                                                                         *)
(* A text is a sequence of tokens.  A token is a word, a phrase or a      *)
(* separator of the reply; Lower gives its lower-cased form and Sub the   *)
(* keywords that occur in it as substrings.                               *)
(***************************************************************************)
EXTENDS Integers, Sequences, FiniteSets, TLC

(* ------------------------------ bounds -------------------------------- *)

\* Number of Decision Node steps explored in one run.
MaxSteps == 3

\* Number of tokens of a text-only reply of the model.
MaxLen == 2

\* Number of Decision Node steps of each of the requests served side by
\* side.
MaxServed == 1

\* Number of pieces of a query of the extraction runs.
MaxQueryLen == 3

\* Number of URLs of the url_list argument of one URL check.
MaxUrls == 3

(* ------------------------- Python values ------------------------------ *)

\* Optional[bool] fields hold "None", "True" or "False".
None == "None"

\* Optional[str]: a text, or the one-token sequence NoneStr.
NoneStr == <<"<None>">>

\* Python truthiness of an Optional[bool].
TruthyB(b) == b = "True"

\* Python truthiness of an Optional[str].
TruthyS(s) == s # NoneStr /\ s # <<>>

\* Python truthiness of fetched_news: None and the empty dict are falsy.
TruthyNews(n) == n \notin {"None", "Empty"}

\* The element of a one-element set. The({e : x \in {v}}) is e with the
\* local variable x holding the value v.
The(S) == CHOOSE x \in S : TRUE

(* ------------------------------ texts --------------------------------- *)

\* str.lower() on one token.
Lower(t) ==
    CASE t = "FINAL CONCLUSION" -> "final conclusion"
      [] t = "Final Conclusion" -> "final conclusion"
      [] t = "SMS" -> "sms"
      [] t = "URL" -> "url"
      [] t = "FAKE" -> "fake"
      [] t = "LEGITIMATE" -> "legitimate"
      [] OTHER -> t

\* str.lower() on a text.
LowerText(s) == [i \in 1..Len(s) |-> Lower(s[i])]

\* The keywords that occur in a (lower-cased) token as substrings.
Sub(t) ==
    CASE t = "not supported" -> {"not supported", "supported"}
      [] t = "doesn't contain any email, sms, url, or news" ->
             {t, "email", "sms", "url", "news"}
      [] t = "unsafe" -> {"unsafe", "safe"}
      [] t = "fraudulent" -> {"fraudulent", "fraud"}
      [] OTHER -> {t}

\* Python `kw in text`.
Contains(s, kw) == \E i \in 1..Len(s) : kw \in Sub(s[i])

\* Whitespace tokens: blank, line break, paragraph break.
IsSpace(t) == t \in {" ", "\n", "\n\n"}

\* Index of the first element of s satisfying Test, or Len(s)+1.
FirstIdx(s, Test(_)) ==
    IF \E i \in 1..Len(s) : Test(s[i])
    THEN CHOOSE i \in 1..Len(s) : Test(s[i]) /\ \A j \in 1..(i-1) : ~Test(s[j])
    ELSE Len(s) + 1

\* Index of the last element of s satisfying Test, or 0.
LastIdx(s, Test(_)) ==
    IF \E i \in 1..Len(s) : Test(s[i])
    THEN CHOOSE i \in 1..Len(s) : Test(s[i]) /\ \A j \in (i+1)..Len(s) : ~Test(s[j])
    ELSE 0

\* str.strip(): drop leading and trailing whitespace.
Strip(s) ==
    LET NotSpace(t) == ~IsSpace(t)
        a == FirstIdx(s, NotSpace)
        b == LastIdx(s, NotSpace)
    IN  IF a > b THEN <<>> ELSE SubSeq(s, a, b)

\* text.split(sep)[0]: the part before the first separator.
BeforeFirst(s, IsSep(_)) == SubSeq(s, 1, FirstIdx(s, IsSep) - 1)

\* The part after the first separator (to the end of the text).
AfterFirst(s, IsSep(_)) == SubSeq(s, FirstIdx(s, IsSep) + 1, Len(s))

\* text.split(sep)[1]: the part between the first and the second separator.
SplitSecond(s, IsSep(_)) == BeforeFirst(AfterFirst(s, IsSep), IsSep)

IsMarker(t) == t = "final conclusion"
IsColon(t) == t = ":"
IsPara(t) == t = "\n\n"
IsLine(t) == t \in {"\n", "\n\n"}

\* text.split("\n\n")[-1]: the part after the last paragraph break.
LastParagraph(s) == SubSeq(s, LastIdx(s, IsPara) + 1, Len(s))

\* `"final conclusion" in content`.
HasMarker(content) == Contains(content, "final conclusion")

\* The conclusion text taken after the marker (content is lower-cased and
\* contains the marker): after the marker, after the first colon if any,
\* cut at the first paragraph break, else at the first line break.
AfterMarker(content) ==
    The({IF Contains(c2, "\n\n") THEN Strip(BeforeFirst(c2, IsPara))
         ELSE IF Contains(c2, "\n") THEN Strip(BeforeFirst(c2, IsLine))
         ELSE c2 :
           c2 \in {IF Contains(c1, ":") THEN Strip(AfterFirst(c1, IsColon)) ELSE c1 :
                     c1 \in {Strip(SplitSecond(content, IsMarker))}}})

\* Conclusion of the news-verification reply: the marker text, or the last
\* paragraph when that is empty or the marker is absent.
VerificationConclusion(content) ==
    LET fc == IF HasMarker(content) THEN AfterMarker(content) ELSE <<>>
    IN  IF fc = <<>> THEN Strip(LastParagraph(content)) ELSE fc

(* --------------------------- URL extraction --------------------------- *)

\* A query is a sequence of pieces: a scheme ("http://", "https://"), a run
\* of characters of the class [-\w.] or a percent escape (UrlChars), or
\* anything else (a blank, "/", "?", "=", ...).
IsScheme(p) == p \in {"http://", "https://"}
UrlChars == {"a.com", "b.com", "scam.co", "%2F", "visit", "and", "x", "y", "1"}

\* The letters of a scheme piece: they are of the class [-\w.] themselves.
SchemeWord(p) == IF p = "http://" THEN <<"http">> ELSE <<"https">>

\* The last piece of the run of UrlChars pieces that starts at i (i - 1 when
\* there is none).
RECURSIVE RunEnd(_, _)
RunEnd(q, i) == IF i <= Len(q) /\ q[i] \in UrlChars THEN RunEnd(q, i + 1) ELSE i - 1

\* re.findall(r'https?://(?:[-\w.]|(?:%[\da-fA-F]{2}))+', query): every
\* scheme followed by at least one character of the class, with the
\* longest run of such characters; matches do not overlap. A scheme piece
\* that follows the run gives its letters to the match and starts none.
RECURSIVE FindUrls(_, _)
FindUrls(q, i) ==
    IF i > Len(q) THEN <<>>
    ELSE IF ~IsScheme(q[i]) THEN FindUrls(q, i + 1)
    ELSE The({IF e < Len(q) /\ IsScheme(q[e + 1])
              THEN <<SubSeq(q, i, e) \o SchemeWord(q[e + 1])>> \o FindUrls(q, e + 2)
              ELSE IF e > i
              THEN <<SubSeq(q, i, e)>> \o FindUrls(q, e + 1)
              ELSE FindUrls(q, i + 1) :
                e \in {RunEnd(q, i + 1)}})

ExtractUrls(q) == FindUrls(q, 1)

(* ----------------------------- messages ------------------------------- *)

SystemMessage(text) == [type |-> "system", content |-> text, tool_calls |-> <<>>, tool_call_id |-> None]
HumanMessage(text)  == [type |-> "human", content |-> text, tool_calls |-> <<>>, tool_call_id |-> None]
AIMessage(text, calls) == [type |-> "ai", content |-> text, tool_calls |-> calls, tool_call_id |-> None]
ToolMessage(text, id) == [type |-> "tool", content |-> text, tool_calls |-> <<>>, tool_call_id |-> id]

SYSTEM_PROMPT == <<"SYSTEM_PROMPT">>
AnalysisInstruction == <<"Before responding to the user, analyze the query">>
VerificationPrompt == <<"News verification required">>
ToolResultNudge == <<"Based on the tool results you've received">>
VerificationErrorReply == <<"i encountered an error while verifying the news">>
AnalysisErrorReply == <<"i encountered an error while analyzing your query">>
VerificationErrorSummary == <<"Error during news verification. Treating as potentially suspicious.">>
AnalysisErrorSummary == <<"Error during analysis. Please try again.">>
IrrelevantDefaultSummary == <<"I am a fraud detection assistant. I can only help with analyzing potential fraud">>
DuplicateNote == <<"Note: This exact tool call has already been executed.">>

(* ------------------------------- tools -------------------------------- *)

\* tools_by_name: the four registered capabilities.
ToolNames == {"fetch_real_time_news_tool", "check_fraud_url_tool",
              "check_fraud_sms_tool", "check_fraud_email_tool"}

\* f"{tool_name}:{str(tool_args)}"
Signature(call) == <<call.name, ":", call.args>>

\* `x in list`
InList(x, l) == \E i \in 1..Len(l) : l[i] = x

(* --------------------------- text signals ----------------------------- *)

\* possible_types and detected_types.
PossibleTypes == {"email", "sms", "url", "news"}
DetectTypes(content) == {t \in PossibleTypes : Contains(content, t)}

\* irrelevant_indicators.
IrrelevantIndicators ==
    {"i am a fraud detection assistant",
     "i can only help with",
     "i'm a fraud detection assistant",
     "i'm designed to analyze",
     "not related to fraud detection",
     "doesn't contain any email, sms, url, or news",
     "not an email, sms, url, or news",
     "please provide a digital communication",
     "i can only assist with fraud detection",
     "not within my scope"}

\* is_irrelevant = any(indicator in content for indicator in irrelevant_indicators)
IsIrrelevantReply(content) == \E ind \in IrrelevantIndicators : Contains(content, ind)

ContainsAny(text, kws) == \E kw \in kws : Contains(text, kw)

\* if <positive keyword> ... True  elif <negative keyword> ... False
InferVerdict(conclusion, positive, negative) ==
    IF ContainsAny(conclusion, positive) THEN "True"
    ELSE IF ContainsAny(conclusion, negative) THEN "False"
    ELSE None

\* ClassifyNews with the two keyword tests in the other order.
ClassifyNews_LegitimateFirst(content) ==
    IF ContainsAny(content, {"legitimate", "supported", "confirmed", "real"}) THEN "False"
    ELSE "True"

\* is_fake_news from the lower-cased verification reply.
ClassifyNews(content) ==
    IF ContainsAny(content, {"fake", "false", "not supported", "no evidence"}) THEN "True"
    ELSE IF ContainsAny(content, {"legitimate", "supported", "confirmed", "real"}) THEN "False"
    ELSE "True"

\* The audit entry that goes with ClassifyNews.
NewsNote(content) ==
    IF ContainsAny(content, {"fake", "false", "not supported", "no evidence"})
    THEN <<"Determined news is likely fake based on article analysis">>
    ELSE IF ContainsAny(content, {"legitimate", "supported", "confirmed", "real"})
    THEN <<"Determined news is likely legitimate based on article analysis">>
    ELSE <<"News verification inconclusive - treating as potentially fake">>

(* ------------------------- Conversation State ------------------------- *)

\* NewsPending without the verdict and latch conditions.
NewsPending_FetchedOnly(s) == TruthyNews(s.fetched_news)

\* The news-verification trigger: fetched_news is truthy, is_fake_news is
\* None and news_verification_requested is falsy.
NewsPending(s) ==
    /\ TruthyNews(s.fetched_news)
    /\ s.is_fake_news = None
    /\ ~TruthyB(s.news_verification_requested)

\* messages.append(m)
AppendMessage(s, m) == [s EXCEPT !.messages = Append(@, m)]

\* state["list_of_actions"].append(a)
Log(s, a) == [s EXCEPT !.list_of_actions = Append(@, a)]

\* initial_state of analyze_query.
InitialState(query) ==
    [user_query |-> query,
     input_types |-> {},
     messages |-> <<>>,
     list_of_actions |-> <<>>,
     is_fraud_url |-> None,
     is_fraud_sms |-> None,
     is_fraud_email |-> None,
     fetched_news |-> "None",
     final_reasoning_summary |-> NoneStr,
     url_list |-> <<>>,
     executed_tools |-> <<>>,
     is_fake_news |-> None,
     news_verification_requested |-> None,
     is_irrelevant_input |-> None]

(* --------------------------- Decision Node ---------------------------- *)

\* WithSystemPrompt that puts the system message in front at every step.
WithSystemPrompt_Always(s) ==
    [s EXCEPT !.messages = <<SystemMessage(SYSTEM_PROMPT)>> \o @]

\* Ensure the system message is only added once.
WithSystemPrompt(s) ==
    IF \E i \in 1..Len(s.messages) : s.messages[i].type = "system"
    THEN s
    ELSE [s EXCEPT !.messages = <<SystemMessage(SYSTEM_PROMPT)>> \o @]

\* First time processing the user query.
Bootstrap(s) ==
    LET urls == ExtractUrls(s.user_query)
        s1 == AppendMessage(s, HumanMessage(s.user_query))
        s2 == IF urls # <<>>
              THEN Log([s1 EXCEPT !.url_list = urls], <<"Extracted URLs from user query", Len(urls)>>)
              ELSE s1
    IN  AppendMessage(s2, SystemMessage(AnalysisInstruction))

\* any(isinstance(msg, ToolMessage) for msg in messages[-3:])
ToolMessageInLastThree(s) ==
    \E i \in 1..Len(s.messages) : i > Len(s.messages) - 3 /\ s.messages[i].type = "tool"

\* NewsVerification without setting the latch.
NewsVerification_NoLatch(s, out) ==
    LET s1 == Log(s, <<"Requesting news verification">>)
        s2 == AppendMessage(s1, SystemMessage(VerificationPrompt))
        content == LowerText(out.content)
        ok1 == AppendMessage(s2, AIMessage(out.content, out.tool_calls))
        ok2 == Log([ok1 EXCEPT !.final_reasoning_summary = VerificationConclusion(content)],
                   <<"Extracted final reasoning summary from news verification">>)
        ok3 == Log([ok2 EXCEPT !.is_fake_news = ClassifyNews(content)], NewsNote(content))
        ko1 == AppendMessage(s2, AIMessage(VerificationErrorReply, <<>>))
        ko2 == Log([ko1 EXCEPT !.is_fake_news = "True"], <<"Error during news verification">>)
        ko3 == [ko2 EXCEPT !.final_reasoning_summary = VerificationErrorSummary]
    IN  [st |-> IF out.ok THEN ok3 ELSE ko3,
         calls |-> <<[bound |-> "plain", ok |-> out.ok]>>]

\* NewsVerification whose failure path sets no summary.
NewsVerification_FailureNoSummary(s, out) ==
    LET s1 == Log([s EXCEPT !.news_verification_requested = "True"],
                  <<"Requesting news verification">>)
        s2 == AppendMessage(s1, SystemMessage(VerificationPrompt))
        content == LowerText(out.content)
        ok1 == AppendMessage(s2, AIMessage(out.content, out.tool_calls))
        ok2 == Log([ok1 EXCEPT !.final_reasoning_summary = VerificationConclusion(content)],
                   <<"Extracted final reasoning summary from news verification">>)
        ok3 == Log([ok2 EXCEPT !.is_fake_news = ClassifyNews(content)], NewsNote(content))
        ko1 == AppendMessage(s2, AIMessage(VerificationErrorReply, <<>>))
        ko2 == Log([ko1 EXCEPT !.is_fake_news = "True"], <<"Error during news verification">>)
    IN  [st |-> IF out.ok THEN ok3 ELSE ko2,
         calls |-> <<[bound |-> "plain", ok |-> out.ok]>>]

\* NewsVerification whose failure path appends no assistant turn.
NewsVerification_FailureNoReply(s, out) ==
    LET s1 == Log([s EXCEPT !.news_verification_requested = "True"],
                  <<"Requesting news verification">>)
        s2 == AppendMessage(s1, SystemMessage(VerificationPrompt))
        content == LowerText(out.content)
        ok1 == AppendMessage(s2, AIMessage(out.content, out.tool_calls))
        ok2 == Log([ok1 EXCEPT !.final_reasoning_summary = VerificationConclusion(content)],
                   <<"Extracted final reasoning summary from news verification">>)
        ok3 == Log([ok2 EXCEPT !.is_fake_news = ClassifyNews(content)], NewsNote(content))
        ko2 == Log([s2 EXCEPT !.is_fake_news = "True"], <<"Error during news verification">>)
        ko3 == [ko2 EXCEPT !.final_reasoning_summary = VerificationErrorSummary]
    IN  [st |-> IF out.ok THEN ok3 ELSE ko3,
         calls |-> <<[bound |-> "plain", ok |-> out.ok]>>]

\* NewsVerification that leaves is_fake_news as it was on the success path.
NewsVerification_VerdictOpen(s, out) ==
    LET s1 == Log([s EXCEPT !.news_verification_requested = "True"],
                  <<"Requesting news verification">>)
        s2 == AppendMessage(s1, SystemMessage(VerificationPrompt))
        content == LowerText(out.content)
        ok1 == AppendMessage(s2, AIMessage(out.content, out.tool_calls))
        ok2 == Log([ok1 EXCEPT !.final_reasoning_summary = VerificationConclusion(content)],
                   <<"Extracted final reasoning summary from news verification">>)
        ok3 == Log(ok2, NewsNote(content))
        ko1 == AppendMessage(s2, AIMessage(VerificationErrorReply, <<>>))
        ko2 == Log([ko1 EXCEPT !.is_fake_news = "True"], <<"Error during news verification">>)
        ko3 == [ko2 EXCEPT !.final_reasoning_summary = VerificationErrorSummary]
    IN  [st |-> IF out.ok THEN ok3 ELSE ko3,
         calls |-> <<[bound |-> "plain", ok |-> out.ok]>>]

\* NewsVerification whose model is bound to the tools: the reply carries a
\* request.
NewsVerification_ToolsBound(s, out) ==
    LET s1 == Log([s EXCEPT !.news_verification_requested = "True"],
                  <<"Requesting news verification">>)
        s2 == AppendMessage(s1, SystemMessage(VerificationPrompt))
        content == LowerText(out.content)
        ok1 == AppendMessage(s2, AIMessage(out.content,
                   <<[name |-> "check_fraud_sms_tool", args |-> "z", id |-> <<0, 1>>]>>))
        ok2 == Log([ok1 EXCEPT !.final_reasoning_summary = VerificationConclusion(content)],
                   <<"Extracted final reasoning summary from news verification">>)
        ok3 == Log([ok2 EXCEPT !.is_fake_news = ClassifyNews(content)], NewsNote(content))
        ko1 == AppendMessage(s2, AIMessage(VerificationErrorReply, <<>>))
        ko2 == Log([ko1 EXCEPT !.is_fake_news = "True"], <<"Error during news verification">>)
        ko3 == [ko2 EXCEPT !.final_reasoning_summary = VerificationErrorSummary]
    IN  [st |-> IF out.ok THEN ok3 ELSE ko3,
         calls |-> <<[bound |-> "plain", ok |-> out.ok]>>]

\* NewsVerification that goes on to the tool-enabled call after its own.
NewsVerification_TwoCalls(s, out) ==
    LET s1 == Log([s EXCEPT !.news_verification_requested = "True"],
                  <<"Requesting news verification">>)
        s2 == AppendMessage(s1, SystemMessage(VerificationPrompt))
        content == LowerText(out.content)
        ok1 == AppendMessage(s2, AIMessage(out.content, out.tool_calls))
        ok2 == Log([ok1 EXCEPT !.final_reasoning_summary = VerificationConclusion(content)],
                   <<"Extracted final reasoning summary from news verification">>)
        ok3 == Log([ok2 EXCEPT !.is_fake_news = ClassifyNews(content)], NewsNote(content))
        ko1 == AppendMessage(s2, AIMessage(VerificationErrorReply, <<>>))
        ko2 == Log([ko1 EXCEPT !.is_fake_news = "True"], <<"Error during news verification">>)
        ko3 == [ko2 EXCEPT !.final_reasoning_summary = VerificationErrorSummary]
    IN  [st |-> IF out.ok THEN ok3 ELSE ko3,
         calls |-> <<[bound |-> "plain", ok |-> out.ok],
                     [bound |-> "tools", ok |-> out.ok]>>]

\* The news-verification branch: latch, prompt, one model call without
\* tools, classification and summary, or the failure defaults.
NewsVerification(s, out) ==
    LET s1 == Log([s EXCEPT !.news_verification_requested = "True"],
                  <<"Requesting news verification">>)
        s2 == AppendMessage(s1, SystemMessage(VerificationPrompt))
        content == LowerText(out.content)
        ok1 == AppendMessage(s2, AIMessage(out.content, out.tool_calls))
        ok2 == Log([ok1 EXCEPT !.final_reasoning_summary = VerificationConclusion(content)],
                   <<"Extracted final reasoning summary from news verification">>)
        ok3 == Log([ok2 EXCEPT !.is_fake_news = ClassifyNews(content)], NewsNote(content))
        ko1 == AppendMessage(s2, AIMessage(VerificationErrorReply, <<>>))
        ko2 == Log([ko1 EXCEPT !.is_fake_news = "True"], <<"Error during news verification">>)
        ko3 == [ko2 EXCEPT !.final_reasoning_summary = VerificationErrorSummary]
    IN  [st |-> IF out.ok THEN ok3 ELSE ko3,
         calls |-> <<[bound |-> "plain", ok |-> out.ok]>>]

\* TypeDetection with the two tests swapped: detected types win over the
\* irrelevance match.
TypeDetection_TypesFirst(s, content) ==
    IF s.input_types # {} THEN s
    ELSE IF DetectTypes(content) # {}
    THEN LET s1 == Log([s EXCEPT !.input_types = DetectTypes(content)],
                       <<"Detected input types", DetectTypes(content)>>)
         IN  IF "news" \in DetectTypes(content) /\ s1.is_fake_news = None
             THEN Log(s1, <<"Marked news for verification">>)
             ELSE s1
    ELSE IF IsIrrelevantReply(content)
    THEN LET s1 == Log([s EXCEPT !.is_irrelevant_input = "True",
                                 !.input_types = {"irrelevant"}],
                       <<"Detected irrelevant input not related to fraud detection">>)
             s2 == [s1 EXCEPT !.final_reasoning_summary =
                        IF HasMarker(content) THEN AfterMarker(content)
                        ELSE IrrelevantDefaultSummary]
         IN  Log(s2, <<"Set final reasoning summary for irrelevant input">>)
    ELSE s

\* TypeDetection without the test that input_types is still empty.
TypeDetection_Always(s, content) ==
    IF IsIrrelevantReply(content)
    THEN LET s1 == Log([s EXCEPT !.is_irrelevant_input = "True",
                                 !.input_types = {"irrelevant"}],
                       <<"Detected irrelevant input not related to fraud detection">>)
             s2 == [s1 EXCEPT !.final_reasoning_summary =
                        IF HasMarker(content) THEN AfterMarker(content)
                        ELSE IrrelevantDefaultSummary]
         IN  Log(s2, <<"Set final reasoning summary for irrelevant input">>)
    ELSE IF DetectTypes(content) # {}
    THEN LET s1 == Log([s EXCEPT !.input_types = DetectTypes(content)],
                       <<"Detected input types", DetectTypes(content)>>)
         IN  IF "news" \in DetectTypes(content) /\ s1.is_fake_news = None
             THEN Log(s1, <<"Marked news for verification">>)
             ELSE s1
    ELSE s

\* TypeDetection whose irrelevance match also stores the detected types.
TypeDetection_Both(s, content) ==
    IF s.input_types # {} THEN s
    ELSE IF IsIrrelevantReply(content)
    THEN LET s1 == Log([s EXCEPT !.is_irrelevant_input = "True",
                                 !.input_types = {"irrelevant"} \cup DetectTypes(content)],
                       <<"Detected irrelevant input not related to fraud detection">>)
             s2 == [s1 EXCEPT !.final_reasoning_summary =
                        IF HasMarker(content) THEN AfterMarker(content)
                        ELSE IrrelevantDefaultSummary]
         IN  Log(s2, <<"Set final reasoning summary for irrelevant input">>)
    ELSE IF DetectTypes(content) # {}
    THEN LET s1 == Log([s EXCEPT !.input_types = DetectTypes(content)],
                       <<"Detected input types", DetectTypes(content)>>)
         IN  IF "news" \in DetectTypes(content) /\ s1.is_fake_news = None
             THEN Log(s1, <<"Marked news for verification">>)
             ELSE s1
    ELSE s

\* If this is the first AI response, try to extract input types from it.
TypeDetection(s, content) ==
    IF s.input_types # {} THEN s
    ELSE IF IsIrrelevantReply(content)
    THEN LET s1 == Log([s EXCEPT !.is_irrelevant_input = "True",
                                 !.input_types = {"irrelevant"}],
                       <<"Detected irrelevant input not related to fraud detection">>)
             s2 == [s1 EXCEPT !.final_reasoning_summary =
                        IF HasMarker(content) THEN AfterMarker(content)
                        ELSE IrrelevantDefaultSummary]
         IN  Log(s2, <<"Set final reasoning summary for irrelevant input">>)
    ELSE IF DetectTypes(content) # {}
    THEN LET s1 == Log([s EXCEPT !.input_types = DetectTypes(content)],
                       <<"Detected input types", DetectTypes(content)>>)
         IN  IF "news" \in DetectTypes(content) /\ s1.is_fake_news = None
             THEN Log(s1, <<"Marked news for verification">>)
             ELSE s1
    ELSE s

\* The three flag updates of the conclusion section, in the order of the
\* code: the detected type, the flag, and the keywords of each verdict.
FlagRules ==
    <<[type |-> "url", field |-> "is_fraud_url",
       positive |-> {"fraud", "malicious", "phishing"}, negative |-> {"safe", "legitimate"}],
      [type |-> "sms", field |-> "is_fraud_sms",
       positive |-> {"fraud", "scam"}, negative |-> {"safe", "legitimate"}],
      [type |-> "email", field |-> "is_fraud_email",
       positive |-> {"fraud", "phishing", "scam"}, negative |-> {"safe", "legitimate"}]>>

\* UpdateFlag without the test that the type was detected.
UpdateFlag_NoTypeCheck(s, rule, conclusion) ==
    The({IF s[rule.field] = None /\ v # None
         THEN Log([s EXCEPT ![rule.field] = v],
                  <<"Updated", rule.field, v, "based on conclusion">>)
         ELSE s :
           v \in {InferVerdict(conclusion, rule.positive, rule.negative)}})

\* UpdateFlag that writes no audit entry.
UpdateFlag_Unlogged(s, rule, conclusion) ==
    The({IF rule.type \in s.input_types /\ s[rule.field] = None /\ v # None
         THEN [s EXCEPT ![rule.field] = v]
         ELSE s :
           v \in {InferVerdict(conclusion, rule.positive, rule.negative)}})

\* UpdateFlag without the test that the flag is still None.
UpdateFlag_Overwrite(s, rule, conclusion) ==
    The({IF rule.type \in s.input_types /\ v # None
         THEN Log([s EXCEPT ![rule.field] = v],
                  <<"Updated", rule.field, v, "based on conclusion">>)
         ELSE s :
           v \in {InferVerdict(conclusion, rule.positive, rule.negative)}})

\* Update one fraud flag from the conclusion when its type was detected
\* and the flag is still None.
UpdateFlag(s, rule, conclusion) ==
    The({IF rule.type \in s.input_types /\ s[rule.field] = None /\ v # None
         THEN Log([s EXCEPT ![rule.field] = v],
                  <<"Updated", rule.field, v, "based on conclusion">>)
         ELSE s :
           v \in {InferVerdict(conclusion, rule.positive, rule.negative)}})

\* The flag updates from rule i on, each on the state left by the previous.
RECURSIVE UpdateFlags(_, _, _)
UpdateFlags(s, conclusion, i) ==
    IF i > Len(FlagRules) THEN s
    ELSE UpdateFlags(UpdateFlag(s, FlagRules[i], conclusion), conclusion, i + 1)

\* ConclusionStep that falls back to the last paragraph of the reply when
\* the marker is absent.
ConclusionStep_LastParagraph(s, out) ==
    IF out.tool_calls = <<>> /\ ~TruthyS(s.final_reasoning_summary)
    THEN The({UpdateFlags(Log([s EXCEPT !.final_reasoning_summary = fc],
                              <<"Extracted final reasoning summary from conclusion section">>),
                          fc, 1) :
                fc \in {IF HasMarker(LowerText(out.content))
                        THEN AfterMarker(LowerText(out.content))
                        ELSE Strip(LastParagraph(LowerText(out.content)))}})
    ELSE s

\* Check if we need to extract a final reasoning summary.
ConclusionStep(s, out) ==
    IF out.tool_calls = <<>> /\ ~TruthyS(s.final_reasoning_summary)
       /\ HasMarker(LowerText(out.content))
    THEN The({UpdateFlags(Log([s EXCEPT !.final_reasoning_summary = fc],
                              <<"Extracted final reasoning summary from conclusion section">>),
                          fc, 1) :
                fc \in {AfterMarker(LowerText(out.content))}})
    ELSE s

\* NormalTurn whose failure path appends the reply but sets no summary.
NormalTurn_NoErrorSummary(s, out) ==
    IF NewsPending(s) THEN [st |-> s, calls |-> <<>>]
    ELSE IF out.ok
    THEN LET s1 == AppendMessage(s, AIMessage(out.content, out.tool_calls))
             s2 == TypeDetection(s1, LowerText(out.content))
         IN  [st |-> ConclusionStep(s2, out),
              calls |-> <<[bound |-> "tools", ok |-> TRUE]>>]
    ELSE [st |-> AppendMessage(s, AIMessage(AnalysisErrorReply, <<>>)),
          calls |-> <<[bound |-> "tools", ok |-> FALSE]>>]

\* NormalTurn whose failure path sets the summary but appends no reply.
NormalTurn_FailureSilent(s, out) ==
    IF NewsPending(s) THEN [st |-> s, calls |-> <<>>]
    ELSE IF out.ok
    THEN LET s1 == AppendMessage(s, AIMessage(out.content, out.tool_calls))
             s2 == TypeDetection(s1, LowerText(out.content))
         IN  [st |-> ConclusionStep(s2, out),
              calls |-> <<[bound |-> "tools", ok |-> TRUE]>>]
    ELSE [st |-> [s EXCEPT !.final_reasoning_summary = AnalysisErrorSummary],
          calls |-> <<[bound |-> "tools", ok |-> FALSE]>>]

\* Invoke LLM with messages (except in the news verification case).
NormalTurn(s, out) ==
    IF NewsPending(s) THEN [st |-> s, calls |-> <<>>]
    ELSE IF out.ok
    THEN LET s1 == AppendMessage(s, AIMessage(out.content, out.tool_calls))
             s2 == TypeDetection(s1, LowerText(out.content))
         IN  [st |-> ConclusionStep(s2, out),
              calls |-> <<[bound |-> "tools", ok |-> TRUE]>>]
    ELSE [st |-> [AppendMessage(s, AIMessage(AnalysisErrorReply, <<>>))
                    EXCEPT !.final_reasoning_summary = AnalysisErrorSummary],
          calls |-> <<[bound |-> "tools", ok |-> FALSE]>>]

\* Which branch of llm_node a state takes.
Branch(s) ==
    LET s0 == WithSystemPrompt(s)
    IN  IF Len(s0.messages) = 1 THEN "bootstrap"
        ELSE IF NewsPending(s0) THEN "verification"
        ELSE IF Len(s0.messages) > 1 /\ ToolMessageInLastThree(s0) THEN "nudge"
        ELSE "plain"

\* llm_node without the instructional turn after tool results.
llm_node_NoNudge(s, out) ==
    LET s0 == WithSystemPrompt(s)
    IN  CASE Branch(s) = "bootstrap" -> NormalTurn(Bootstrap(s0), out)
          [] Branch(s) = "verification" -> NewsVerification(s0, out)
          [] OTHER -> NormalTurn(s0, out)

\* llm_node: the new state and the model calls made, for the outcome `out`
\* of the model call.
llm_node(s, out) ==
    LET s0 == WithSystemPrompt(s)
    IN  CASE Branch(s) = "bootstrap" -> NormalTurn(Bootstrap(s0), out)
          [] Branch(s) = "verification" -> NewsVerification(s0, out)
          [] Branch(s) = "nudge" ->
                 NormalTurn(AppendMessage(s0, SystemMessage(ToolResultNudge)), out)
          [] OTHER -> NormalTurn(s0, out)

(* --------------------------- Tool Dispatcher -------------------------- *)

\* ApplyResult whose fetch case stores the articles without the two resets.
ApplyResult_NoReset(s, name, result) ==
    CASE name = "check_fraud_url_tool" ->
             Log([s EXCEPT !.is_fraud_url = result], <<"Executed", name, result>>)
      [] name = "check_fraud_sms_tool" ->
             Log([s EXCEPT !.is_fraud_sms = result], <<"Executed", name, result>>)
      [] name = "check_fraud_email_tool" ->
             Log([s EXCEPT !.is_fraud_email = result], <<"Executed", name, result>>)
      [] name = "fetch_real_time_news_tool" ->
             Log([s EXCEPT !.fetched_news = result], <<"Executed", name, "Articles fetched">>)
      [] OTHER -> s

\* Update state based on tool results.
ApplyResult(s, name, result) ==
    CASE name = "check_fraud_url_tool" ->
             Log([s EXCEPT !.is_fraud_url = result], <<"Executed", name, result>>)
      [] name = "check_fraud_sms_tool" ->
             Log([s EXCEPT !.is_fraud_sms = result], <<"Executed", name, result>>)
      [] name = "check_fraud_email_tool" ->
             Log([s EXCEPT !.is_fraud_email = result], <<"Executed", name, result>>)
      [] name = "fetch_real_time_news_tool" ->
             [Log([s EXCEPT !.fetched_news = result], <<"Executed", name, "Articles fetched">>)
                EXCEPT !.is_fake_news = None, !.news_verification_requested = "False"]
      [] OTHER -> s

\* DispatchOne whose duplicate branch also writes an audit entry.
DispatchOne_DuplicateLogged(acc, call, outcome) ==
    LET sig == Signature(call)
    IN  IF InList(sig, acc.st.executed_tools)
        THEN [acc EXCEPT !.st = Log(@, <<"Skipped duplicate", call.name>>),
                         !.results = Append(@, ToolMessage(DuplicateNote, call.id))]
        ELSE IF call.name \in ToolNames
        THEN IF outcome = "raise"
             THEN [st |-> Log(acc.st, <<"Error executing", call.name>>),
                   results |-> Append(acc.results, ToolMessage(<<"Tool error">>, call.id)),
                   calls |-> Append(acc.calls, [sig |-> sig, ok |-> FALSE])]
             ELSE [st |-> [ApplyResult(acc.st, call.name, outcome)
                             EXCEPT !.executed_tools = Append(@, sig)],
                   results |-> Append(acc.results, ToolMessage(<<outcome>>, call.id)),
                   calls |-> Append(acc.calls, [sig |-> sig, ok |-> TRUE])]
        ELSE [acc EXCEPT !.st = Log(@, <<"Error: Unknown tool", call.name>>),
                         !.results = Append(@, ToolMessage(<<"Error: Unknown tool", call.name>>, call.id))]

\* DispatchOne whose failure branch records the signature as executed.
DispatchOne_FailureTracked(acc, call, outcome) ==
    LET sig == Signature(call)
    IN  IF InList(sig, acc.st.executed_tools)
        THEN [acc EXCEPT !.results = Append(@, ToolMessage(DuplicateNote, call.id))]
        ELSE IF call.name \in ToolNames
        THEN IF outcome = "raise"
             THEN [st |-> [Log(acc.st, <<"Error executing", call.name>>)
                             EXCEPT !.executed_tools = Append(@, sig)],
                   results |-> Append(acc.results, ToolMessage(<<"Tool error">>, call.id)),
                   calls |-> Append(acc.calls, [sig |-> sig, ok |-> FALSE])]
             ELSE [st |-> [ApplyResult(acc.st, call.name, outcome)
                             EXCEPT !.executed_tools = Append(@, sig)],
                   results |-> Append(acc.results, ToolMessage(<<outcome>>, call.id)),
                   calls |-> Append(acc.calls, [sig |-> sig, ok |-> TRUE])]
        ELSE [acc EXCEPT !.st = Log(@, <<"Error: Unknown tool", call.name>>),
                         !.results = Append(@, ToolMessage(<<"Error: Unknown tool", call.name>>, call.id))]

\* One iteration of `for tool_call in tool_calls`: acc holds the state, the
\* tool-result turns and the invocations made so far; outcome is what the
\* invocation of this call does ("raise", or the result).
DispatchOne(acc, call, outcome) ==
    LET sig == Signature(call)
    IN  IF InList(sig, acc.st.executed_tools)
        THEN [acc EXCEPT !.results = Append(@, ToolMessage(DuplicateNote, call.id))]
        ELSE IF call.name \in ToolNames
        THEN IF outcome = "raise"
             THEN [st |-> Log(acc.st, <<"Error executing", call.name>>),
                   results |-> Append(acc.results, ToolMessage(<<"Tool error">>, call.id)),
                   calls |-> Append(acc.calls, [sig |-> sig, ok |-> FALSE])]
             ELSE [st |-> [ApplyResult(acc.st, call.name, outcome)
                             EXCEPT !.executed_tools = Append(@, sig)],
                   results |-> Append(acc.results, ToolMessage(<<outcome>>, call.id)),
                   calls |-> Append(acc.calls, [sig |-> sig, ok |-> TRUE])]
        ELSE [acc EXCEPT !.st = Log(@, <<"Error: Unknown tool", call.name>>),
                         !.results = Append(@, ToolMessage(<<"Error: Unknown tool", call.name>>, call.id))]

\* DispatchLoop that takes the requests of the batch from the last to the
\* first.
RECURSIVE DispatchLoop_Backwards(_, _, _, _)
DispatchLoop_Backwards(acc, tool_calls, outs, i) ==
    IF i > Len(tool_calls) THEN acc
    ELSE DispatchOne(DispatchLoop_Backwards(acc, tool_calls, outs, i + 1),
                     tool_calls[i], outs[i])

RECURSIVE DispatchLoop(_, _, _, _)
DispatchLoop(acc, tool_calls, outs, i) ==
    IF i > Len(tool_calls) THEN acc
    ELSE DispatchLoop(DispatchOne(acc, tool_calls[i], outs[i]), tool_calls, outs, i + 1)

\* tool_node: the new state and the capability invocations made, for the
\* outcomes `outs` of the invocations of the requests of the batch.
tool_node(s, outs) ==
    LET tool_calls == s.messages[Len(s.messages)].tool_calls
        acc == DispatchLoop([st |-> s, results |-> <<>>, calls |-> <<>>], tool_calls, outs, 1)
    IN  IF tool_calls = <<>> THEN [st |-> s, calls |-> <<>>]
        ELSE [st |-> [acc.st EXCEPT !.messages = @ \o acc.results], calls |-> acc.calls]

(* -------------------------- Termination Router ------------------------ *)

END == "END"

\* Index of the last AI message, or 0.
LastAI(messages) ==
    LET IsAI(m) == m.type = "ai"
    IN  LastIdx(messages, IsAI)

\* should_continue that counts an irrelevant run as not checked.
should_continue_IrrelevantUnchecked(s) ==
    LET messages == s.messages
        n == Len(messages)
        last_ai == LastAI(messages)
        input_types == s.input_types
        type_checks ==
            (IF "url" \in input_types THEN {s.is_fraud_url # None} ELSE {}) \cup
            (IF "email" \in input_types THEN {s.is_fraud_email # None} ELSE {}) \cup
            (IF "sms" \in input_types THEN {s.is_fraud_sms # None} ELSE {}) \cup
            (IF "news" \in input_types THEN {s.is_fake_news # None} ELSE {})
        executed_all_relevant_tools ==
            IF input_types = {} THEN FALSE
            ELSE IF "irrelevant" \in input_types THEN FALSE
            ELSE type_checks = {TRUE}
    IN  IF n = 0 THEN END
        ELSE IF TruthyB(s.is_irrelevant_input) /\ TruthyS(s.final_reasoning_summary) THEN END
        ELSE IF NewsPending(s) THEN "llm"
        ELSE IF last_ai = 0 THEN END
        ELSE IF messages[last_ai].tool_calls # <<>> /\ last_ai = n THEN "tool_node"
        ELSE IF TruthyS(s.final_reasoning_summary) THEN END
        ELSE IF "news" \in input_types /\ s.is_fake_news = None /\ TruthyNews(s.fetched_news)
             THEN "llm"
        ELSE IF messages[n].type = "tool" /\ executed_all_relevant_tools THEN "llm"
        ELSE END

should_continue(s) ==
    LET messages == s.messages
        n == Len(messages)
        last_ai == LastAI(messages)
        input_types == s.input_types
        type_checks ==
            (IF "url" \in input_types THEN {s.is_fraud_url # None} ELSE {}) \cup
            (IF "email" \in input_types THEN {s.is_fraud_email # None} ELSE {}) \cup
            (IF "sms" \in input_types THEN {s.is_fraud_sms # None} ELSE {}) \cup
            (IF "news" \in input_types THEN {s.is_fake_news # None} ELSE {})
        executed_all_relevant_tools ==
            IF input_types = {} THEN FALSE
            ELSE IF "irrelevant" \in input_types THEN TRUE
            ELSE type_checks = {TRUE}
    IN  IF n = 0 THEN END
        ELSE IF TruthyB(s.is_irrelevant_input) /\ TruthyS(s.final_reasoning_summary) THEN END
        ELSE IF NewsPending(s) THEN "llm"
        ELSE IF last_ai = 0 THEN END
        ELSE IF messages[last_ai].tool_calls # <<>> /\ last_ai = n THEN "tool_node"
        ELSE IF TruthyS(s.final_reasoning_summary) THEN END
        ELSE IF "news" \in input_types /\ s.is_fake_news = None /\ TruthyNews(s.fetched_news)
             THEN "llm"
        ELSE IF messages[n].type = "tool" /\ executed_all_relevant_tools THEN "llm"
        ELSE END

(* ------------------------ external collaborators ---------------------- *)

\* All texts of at most n tokens over an alphabet.
TextsUpTo(alphabet, n) == UNION {[1..k -> alphabet] : k \in 0..n}

\* Tokens of the text-only replies of a normal model turn.
TurnAlphabet == {"i can only help with", "Final Conclusion", "\n\n", "sms", "fraud"}

\* Tokens of the replies of the verification call.
VerifyAlphabet == {"FINAL CONCLUSION", "\n\n", "fake", "LEGITIMATE", "not supported", "word"}

\* A request of the model: capability name and arguments.
Req(name, args) == [name |-> name, args |-> args]

\* The replies of the model that carry requests: text and batch.
RequestReplies ==
    {<< <<>>, <<Req("check_fraud_sms_tool", "a"), Req("check_fraud_sms_tool", "a")>> >>,
     << <<>>, <<Req("check_fraud_sms_tool", "b")>> >>,
     << <<>>, <<Req("check_fraud_url_tool", "a"), Req("translate_tool", "a")>> >>,
     << <<"news">>, <<Req("fetch_real_time_news_tool", "a")>> >>,
     << <<"i can only help with", "Final Conclusion">>, <<Req("check_fraud_email_tool", "a")>> >>,
     << <<"i can only help with", "Final Conclusion", ":", "word">>,
        <<Req("check_fraud_sms_tool", "a")>> >>}

\* The tool_calls of a reply: the requests with the call ids of step k.
WithIds(batch, k) ==
    [i \in 1..Len(batch) |-> [name |-> batch[i].name, args |-> batch[i].args, id |-> <<k, i>>]]

\* Outcome of a model call: a reply, or an exception.
Reply(text, calls) == [ok |-> TRUE, content |-> text, tool_calls |-> calls]
Failure == [ok |-> FALSE, content |-> <<>>, tool_calls |-> <<>>]

\* What an invocation of a capability can do.
OutcomesOf(name) ==
    IF name = "fetch_real_time_news_tool"
    THEN {"Articles", "Empty", "ErrorMap", "raise"}
    ELSE {"True", "False", "raise"}

\* outs gives an outcome to exactly the requests of the batch that are invoked.
RECURSIVE Admissible(_, _, _, _)
Admissible(acc, tool_calls, outs, i) ==
    IF i > Len(tool_calls) THEN TRUE
    ELSE /\ IF InList(Signature(tool_calls[i]), acc.st.executed_tools)
               \/ tool_calls[i].name \notin ToolNames
            THEN outs[i] = "unused"
            ELSE outs[i] \in OutcomesOf(tool_calls[i].name)
         /\ Admissible(DispatchOne(acc, tool_calls[i], outs[i]), tool_calls, outs, i + 1)

AllOutcomes == {"True", "False", "Articles", "Empty", "ErrorMap", "raise", "unused"}

\* The queries of the requests.
Queries == {<<"visit", " ", "https://", "a.com", "/", "x">>}

(* ------------------------------ the run ------------------------------- *)

VARIABLES
    state,        \* the Conversation State threaded through the graph
    pc,           \* the node to run next: "llm", "tool_node" or END
    llm_calls,    \* the model calls made so far: tools bound or not, outcome
    invocations,  \* the capability invocations made so far: signature, outcome
    requests,     \* the analysis requests served side by side, each with its
                  \* own Conversation State, next node and call records
    http          \* the POST /analyze exchange: the front door serving it,
                  \* the request body and the response status

vars == <<state, pc, llm_calls, invocations, requests, http>>

\* A request body: what was posted (kind) and the user_query it carries.
Body(kind, query) == [kind |-> kind, user_query |-> query]

\* The exchange of a request with a proper query, not yet answered.
Accepted(door, query) ==
    [door |-> door, body |-> Body("Query", query), status |-> None, failed |-> FALSE]

\* The requests served side by side.
Requests == {1, 2}

\* analyze_query: a request starts from its own fresh initial_state.
NewRequest(query) ==
    [st |-> InitialState(query), pc |-> "llm", llm_calls |-> <<>>, invocations |-> <<>>]

Init ==
    /\ state \in {InitialState(q) : q \in Queries}
    /\ pc = "llm"
    /\ llm_calls = <<>>
    /\ invocations = <<>>
    /\ requests = [r \in Requests |-> NewRequest(state.user_query)]
    /\ http = Accepted("app", state.user_query)

\* LlmStep that picks the next node from the last turn alone, without the
\* router.
LlmStep_NoRouter(out) ==
    \E r \in {llm_node(state, out)} :
        /\ state' = r.st
        /\ llm_calls' = llm_calls \o r.calls
        /\ pc' = IF r.st.messages[Len(r.st.messages)].tool_calls # <<>>
                 THEN "tool_node" ELSE END
        /\ UNCHANGED <<invocations, requests, http>>

\* LlmStep whose router evaluation leaves a trace in the state.
LlmStep_RouterWrites(out) ==
    \E r \in {llm_node(state, out)} :
        /\ state' = Log(r.st, <<"router evaluated">>)
        /\ llm_calls' = llm_calls \o r.calls
        /\ pc' = should_continue(r.st)
        /\ UNCHANGED <<invocations, requests, http>>

\* One llm_node step with model outcome `out`, followed by the router.
LlmStep(out) ==
    \E r \in {llm_node(state, out)} :
        /\ state' = r.st
        /\ llm_calls' = llm_calls \o r.calls
        /\ pc' = should_continue(r.st)
        /\ UNCHANGED <<invocations, requests, http>>

CanStep == pc = "llm" /\ Len(llm_calls) < MaxSteps

\* The model answers a normal turn with requests.
ModelRequests ==
    /\ CanStep /\ Branch(state) # "verification"
    /\ \E r \in RequestReplies :
          LlmStep(Reply(r[1], WithIds(r[2], Len(llm_calls) + 1)))

\* The model answers a normal turn with text only.
ModelAnswers ==
    /\ CanStep /\ Branch(state) # "verification"
    /\ \E text \in TextsUpTo(TurnAlphabet, MaxLen) : LlmStep(Reply(text, <<>>))

\* The model call of a normal turn raises.
ModelFails ==
    /\ CanStep /\ Branch(state) # "verification"
    /\ LlmStep(Failure)

\* The model answers the verification call (no tools bound).
VerificationAnswers ==
    /\ CanStep /\ Branch(state) = "verification"
    /\ \E text \in TextsUpTo(VerifyAlphabet, MaxLen) : LlmStep(Reply(text, <<>>))

\* The verification call raises.
VerificationFails ==
    /\ CanStep /\ Branch(state) = "verification"
    /\ LlmStep(Failure)

\* One tool_node step; the graph then returns to llm.
Dispatch ==
    /\ pc = "tool_node"
    /\ LET tool_calls == state.messages[Len(state.messages)].tool_calls
       IN  \E outs \in [1..Len(tool_calls) -> AllOutcomes] :
              /\ Admissible([st |-> state, results |-> <<>>, calls |-> <<>>], tool_calls, outs, 1)
              /\ \E r \in {tool_node(state, outs)} :
                    /\ state' = r.st
                    /\ invocations' = invocations \o r.calls
    /\ pc' = "llm"
    /\ UNCHANGED <<llm_calls, requests, http>>

Next ==
    \/ ModelRequests
    \/ ModelAnswers
    \/ ModelFails
    \/ VerificationAnswers
    \/ VerificationFails
    \/ Dispatch

Spec == Init /\ [][Next]_vars

(* ------------------------- the capability layer ---------------------- *)

\* What the external collaborator behind a capability can do when called:
\* the classifiers answer or raise; the news service answers with or
\* without articles, fails with a RequestException, or fails otherwise
\* (a payload the handler cannot read).
CollaboratorOutcomes(name) ==
    IF name = "fetch_real_time_news_tool"
    THEN {"Articles", "NoArticles", "RequestException", "OtherException"}
    ELSE {"True", "False", "Raises"}

RaisingCauses == {"Raises", "RequestException", "OtherException"}

\* The result the capability returns to tool_node: the handler turns a
\* classifier exception into False and a RequestException into {}, the tool
\* turns any other exception of the fetch into {"error": ...}. "raise" is an
\* invocation that raises before the collaborator is called.
ToolResult(name, cause) ==
    CASE cause = "Raises" -> "False"
      [] cause = "RequestException" -> "Empty"
      [] cause = "NoArticles" -> "Empty"
      [] cause = "OtherException" -> "ErrorMap"
      [] OTHER -> cause

AllCauses ==
    {"True", "False", "Raises", "Articles", "NoArticles", "RequestException",
     "OtherException", "raise", "unused"}

\* The invocation records of a batch, each with what the collaborator did
\* and what the capability returned.
WithCauses(calls, tool_calls, causes) ==
    LET invoked == SelectSeq([i \in 1..Len(tool_calls) |-> i],
                             LAMBDA i : causes[i] # "unused")
    IN  [j \in 1..Len(calls) |->
            [sig |-> calls[j].sig, ok |-> calls[j].ok,
             cause |-> causes[invoked[j]],
             result |-> ToolResult(tool_calls[invoked[j]].name, causes[invoked[j]])]]

\* One tool_node step, with the behaviour of the collaborators drawn and
\* recorded; the graph then returns to llm.
CollaboratorDispatch ==
    /\ pc = "tool_node"
    /\ \E batch \in {state.messages[Len(state.messages)].tool_calls} :
       \E causes \in [1..Len(batch) -> AllCauses] :
       \E outs \in {[i \in 1..Len(batch) |-> ToolResult(batch[i].name, causes[i])]} :
          /\ \A i \in 1..Len(batch) :
                causes[i] \in CollaboratorOutcomes(batch[i].name) \cup {"raise", "unused"}
          /\ Admissible([st |-> state, results |-> <<>>, calls |-> <<>>], batch, outs, 1)
          /\ \E r \in {tool_node(state, outs)} :
                /\ state' = r.st
                /\ invocations' = invocations \o WithCauses(r.calls, batch, causes)
    /\ pc' = "llm"
    /\ UNCHANGED <<llm_calls, requests, http>>

CapabilityNext ==
    \/ ModelRequests
    \/ CollaboratorDispatch

\* The runs of requests and dispatches, with the collaborators in view.
CapabilitySpec == Init /\ [][CapabilityNext]_vars

(* ------------------------ batches of requests ------------------------ *)

\* Replies whose batch asks one capability more than once, with different
\* arguments.
BatchReplies ==
    {<< <<>>, <<Req("check_fraud_sms_tool", "a"), Req("check_fraud_sms_tool", "b")>> >>,
     << <<>>, <<Req("check_fraud_url_tool", "a"), Req("check_fraud_sms_tool", "a"),
                Req("check_fraud_url_tool", "b")>> >>}

\* The model answers a normal turn with one of these batches.
ModelRequestsBatch ==
    /\ CanStep /\ Branch(state) # "verification"
    /\ \E r \in BatchReplies :
          LlmStep(Reply(r[1], WithIds(r[2], Len(llm_calls) + 1)))

BatchNext ==
    \/ ModelRequests
    \/ ModelRequestsBatch
    \/ Dispatch

\* The runs of requests and dispatches, with batches that repeat a
\* capability.
BatchSpec == Init /\ [][BatchNext]_vars

(* ------------------------ replies with a conclusion ------------------ *)

\* Text-only replies that name content types and end with a conclusion
\* section holding one keyword.
ProseTypes == {<<"url">>, <<"sms">>, <<"email">>, <<"word">>, <<"url", "sms">>}
ProseKeywords ==
    {"fraud", "scam", "phishing", "malicious", "safe", "legitimate", "unsafe", "word"}
ProseReplies == {t \o <<"Final Conclusion", k>> : t \in ProseTypes, k \in ProseKeywords}

\* The model answers a normal turn with one of these replies.
ModelConcludes ==
    /\ CanStep /\ Branch(state) # "verification"
    /\ \E text \in ProseReplies : LlmStep(Reply(text, <<>>))

ProseNext ==
    \/ ModelRequests
    \/ ModelConcludes
    \/ Dispatch

\* The runs of requests, dispatches and concluding replies.
ProseSpec == Init /\ [][ProseNext]_vars

(* ---------------------------- the URL check -------------------------- *)

\* What the classifier does on one URL of the list, and the lists of it.
UrlOutcomes == {"True", "False", "Raises"}
UrlOutcomeLists == TextsUpTo(UrlOutcomes, MaxUrls)

\* handler.check_fraud_url: the prediction, or False when the classifier
\* raises.
check_fraud_url(outcome) == IF outcome = "Raises" THEN "False" ELSE outcome

\* results.count(v)
CountOf(results, v) == Cardinality({i \in 1..Len(results) : results[i] = v})

\* check_fraud_url_tool with ties resolved toward True.
check_fraud_url_tool_TiesTrue(results) ==
    IF CountOf(results, "True") >= CountOf(results, "False") THEN "True" ELSE "False"

\* check_fraud_url_tool on the per-URL verdicts:
\* results.count(True) > results.count(False).
check_fraud_url_tool(results) ==
    IF CountOf(results, "True") > CountOf(results, "False") THEN "True" ELSE "False"

\* What the invocation of one request can do: the classifier outcomes on
\* the URLs of the list (check_fraud_url_tool) or one of OutcomesOf; "raise"
\* when the invocation raises, "unused" when the request is not invoked.
UrlCheckCauses(call) ==
    IF call.name = "check_fraud_url_tool"
    THEN {[out |-> "list", list |-> l] : l \in UrlOutcomeLists}
            \cup {[out |-> o, list |-> <<>>] : o \in {"raise", "unused"}}
    ELSE {[out |-> o, list |-> <<>>] : o \in OutcomesOf(call.name) \cup {"unused"}}

\* The ways the invocations of the requests i.. of a batch can go.
RECURSIVE BatchCauses(_, _)
BatchCauses(batch, i) ==
    IF i > Len(batch) THEN {<<>>}
    ELSE {<<c>> \o rest : c \in UrlCheckCauses(batch[i]), rest \in BatchCauses(batch, i + 1)}

\* The invocation records of a batch, each with the per-URL verdicts of the
\* handler (empty for the other capabilities) and the result returned.
WithVerdicts(calls, tool_calls, causes, outs) ==
    LET invoked == SelectSeq([i \in 1..Len(tool_calls) |-> i],
                             LAMBDA i : causes[i].out # "unused")
    IN  [j \in 1..Len(calls) |->
            [sig |-> calls[j].sig, ok |-> calls[j].ok,
             verdicts |-> [k \in 1..Len(causes[invoked[j]].list) |->
                              check_fraud_url(causes[invoked[j]].list[k])],
             result |-> outs[invoked[j]]]]

\* One tool_node step in which every invocation of check_fraud_url_tool
\* runs the classifier on each URL of its list and aggregates.
UrlCheckDispatch ==
    /\ pc = "tool_node"
    /\ \E batch \in {state.messages[Len(state.messages)].tool_calls} :
       \E causes \in BatchCauses(batch, 1) :
       \E outs \in {[i \in 1..Len(batch) |->
                       IF causes[i].out = "list"
                       THEN check_fraud_url_tool(
                                [k \in 1..Len(causes[i].list) |->
                                    check_fraud_url(causes[i].list[k])])
                       ELSE causes[i].out]} :
          /\ Admissible([st |-> state, results |-> <<>>, calls |-> <<>>], batch, outs, 1)
          /\ \E r \in {tool_node(state, outs)} :
                /\ state' = r.st
                /\ invocations' = invocations \o WithVerdicts(r.calls, batch, causes, outs)
    /\ pc' = "llm"
    /\ UNCHANGED <<llm_calls, requests, http>>

UrlCheckNext ==
    \/ ModelRequests
    \/ UrlCheckDispatch

\* The runs of requests and dispatches, with the URL lists in view.
UrlCheckSpec == Init /\ [][UrlCheckNext]_vars

(* ----------------------- requests side by side ----------------------- *)

\* StateOf with the duplicate-call tracking kept in one list for all
\* requests.
StateOf_SharedTracking(r) ==
    [requests[r].st EXCEPT !.executed_tools =
        requests[1].st.executed_tools \o requests[2].st.executed_tools]

\* The Conversation State the steps of request r are given: the one its
\* own workflow_graph.invoke threads through the nodes.
StateOf(r) == requests[r].st

\* The record of a request after a Decision Node step (with the router
\* evaluation) and after a Tool Dispatcher step on the state s.
AfterLlm(rec, s, out) ==
    The({[st |-> x.st, pc |-> should_continue(x.st),
          llm_calls |-> rec.llm_calls \o x.calls, invocations |-> rec.invocations] :
            x \in {llm_node(s, out)}})

AfterDispatch(rec, s, outs) ==
    The({[st |-> x.st, pc |-> "llm",
          llm_calls |-> rec.llm_calls, invocations |-> rec.invocations \o x.calls] :
            x \in {tool_node(s, outs)}})

\* The model outcomes drawn for the requests served side by side: a reply
\* with requests or an exception on a normal turn, a text or an exception
\* on the verification call.
ServeOutcomes(s, k) ==
    IF Branch(s) = "verification"
    THEN {Reply(<<"FINAL CONCLUSION", "fake">>, <<>>), Failure}
    ELSE {Reply(r[1], WithIds(r[2], k)) : r \in RequestReplies} \cup {Failure}

\* One Decision Node step of one of the requests.
ServeModelTurn ==
    /\ \E r \in Requests :
          /\ requests[r].pc = "llm"
          /\ Len(requests[r].llm_calls) < MaxServed
          /\ \E s \in {StateOf(r)} :
             \E out \in ServeOutcomes(s, Len(requests[r].llm_calls) + 1) :
                requests' = [requests EXCEPT ![r] = AfterLlm(requests[r], s, out)]
    /\ UNCHANGED <<state, pc, llm_calls, invocations, http>>

\* One Tool Dispatcher step of one of the requests.
ServeDispatch ==
    /\ \E r \in Requests :
          /\ requests[r].pc = "tool_node"
          /\ \E s \in {StateOf(r)} :
             \E batch \in {s.messages[Len(s.messages)].tool_calls} :
             \E outs \in [1..Len(batch) -> AllOutcomes] :
                /\ Admissible([st |-> s, results |-> <<>>, calls |-> <<>>], batch, outs, 1)
                /\ requests' = [requests EXCEPT ![r] = AfterDispatch(requests[r], s, outs)]
    /\ UNCHANGED <<state, pc, llm_calls, invocations, http>>

ConcurrentNext ==
    \/ ServeModelTurn
    \/ ServeDispatch

\* Two analysis requests of the same query, their steps interleaved.
ConcurrentSpec == Init /\ [][ConcurrentNext]_vars

(* --------------------------- the bootstrap --------------------------- *)

\* The pieces the queries of the extraction runs are made of.
QueryPieces == {"https://", "a.com", "/", " "}

ExampleQuery ==
    <<"visit", " ", "https://", "a.com", " ", "and", " ",
      "https://", "b.com", "/", "x", "?", "y", "=", "1">>

\* The queries of the extraction runs (analyze_query refuses the empty one).
UrlQueries == (TextsUpTo(QueryPieces, MaxQueryLen) \ {<<>>}) \cup {ExampleQuery}

ExtractionInit ==
    /\ state \in {InitialState(q) : q \in UrlQueries}
    /\ pc = "llm"
    /\ llm_calls = <<>>
    /\ invocations = <<>>
    /\ requests = [r \in Requests |-> NewRequest(state.user_query)]
    /\ http = Accepted("app", state.user_query)

ExtractionNext ==
    \/ ModelRequests
    \/ ModelFails

\* The first Decision Node step on each of the queries.
ExtractionSpec == ExtractionInit /\ [][ExtractionNext]_vars

(* ----------------------- the router as a function -------------------- *)

\* Message logs the router is evaluated on: empty, without an assistant
\* turn, ending with a text reply, with requests, with tool results.
RouterLogs ==
    {<<>>,
     <<SystemMessage(SYSTEM_PROMPT), HumanMessage(<<"x">>)>>,
     <<SystemMessage(SYSTEM_PROMPT), HumanMessage(<<"x">>), AIMessage(<<"word">>, <<>>)>>,
     <<SystemMessage(SYSTEM_PROMPT), HumanMessage(<<"x">>),
       AIMessage(<<>>, WithIds(<<Req("check_fraud_url_tool", "a")>>, 1))>>,
     <<SystemMessage(SYSTEM_PROMPT), HumanMessage(<<"x">>),
       AIMessage(<<>>, WithIds(<<Req("check_fraud_url_tool", "a")>>, 1)),
       ToolMessage(<<"True">>, <<1, 1>>)>>,
     <<SystemMessage(SYSTEM_PROMPT), HumanMessage(<<"x">>),
       AIMessage(<<"word">>, <<>>), ToolMessage(<<"True">>, <<1, 1>>)>>}

RouterTypes == {{}, {"irrelevant"}, {"url"}, {"url", "news"}, {"sms", "email"}}

\* The Conversation States the router is evaluated on.
RouterStates ==
    {[InitialState(<<"x">>) EXCEPT
         !.messages = m, !.input_types = t,
         !.is_fraud_url = v[1], !.is_fraud_sms = v[2], !.is_fraud_email = v[3],
         !.is_fake_news = v[4], !.news_verification_requested = v[5],
         !.is_irrelevant_input = v[6],
         !.fetched_news = n, !.final_reasoning_summary = f] :
       m \in RouterLogs, t \in RouterTypes,
       v \in {None, "True"} \X {None, "False"} \X {None, "True"} \X {None, "True"}
                \X {None, "True"} \X {None, "True"},
       n \in {"None", "Articles"}, f \in {NoneStr, <<>>, <<"word">>}}

RouterInit ==
    /\ state \in RouterStates
    /\ pc = "should_continue"
    /\ llm_calls = <<>>
    /\ invocations = <<>>
    /\ requests = [r \in Requests |-> NewRequest(state.user_query)]
    /\ http = Accepted("app", state.user_query)

\* One evaluation of the router on the state.
Route ==
    /\ pc = "should_continue"
    /\ pc' = should_continue(state)
    /\ UNCHANGED <<state, llm_calls, invocations, requests, http>>

\* The router applied to each of the states.
RouterSpec == RouterInit /\ [][Route]_vars

(* --------------------------- the front door -------------------------- *)

\* The two front doors: app.py (Flask) and main.py (FastAPI).
Doors == {"app", "main"}

\* The request bodies: no JSON body, the JSON value null, an object without
\* user_query, an empty user_query, a user_query of fewer than ten
\* characters, one of ten or more blanks, and a proper query.
Bodies ==
    {Body(k, <<>>) : k \in {"NoBody", "Null", "Missing", "Empty"}}
        \cup {Body("Short", <<"x">>), Body("Blank", <<" ">>)}
        \cup {Body("Query", q) : q \in Queries}

\* The response of a request that is refused, or the query the workflow is
\* started on (status None).
Refused(status) == [status |-> status, user_query |-> <<>>]
Started(query) == [status |-> None, user_query |-> query]

\* app.py analyze_query up to the construction of initial_state:
\* request.json raises without a JSON body and data.get raises on null, both
\* inside the try (500); `not user_query` gives 400.
app_analyze_query(body) ==
    IF body.kind \in {"NoBody", "Null"} THEN Refused("500")
    ELSE IF body.kind = "Missing" \/ body.user_query = <<>> THEN Refused("400")
    ELSE Started(body.user_query)

\* main.py analyze_query up to the construction of initial_state: the
\* AnalyzeRequest model (user_query: str, min_length=10) is validated first
\* (422), then the stripped query is tested (400).
main_analyze_query(body) ==
    IF body.kind \in {"NoBody", "Null", "Missing", "Empty", "Short"} THEN Refused("422")
    ELSE IF Strip(body.user_query) = <<>> THEN Refused("400")
    ELSE Started(Strip(body.user_query))

analyze_query(door, body) ==
    IF door = "app" THEN app_analyze_query(body) ELSE main_analyze_query(body)

\* Before initial_state is built there is no Conversation State.
NoState == [user_query |-> NoneStr]

FrontDoorInit ==
    /\ http \in {[door |-> d, body |-> b, status |-> None, failed |-> FALSE] :
                   d \in Doors, b \in Bodies}
    /\ state = NoState
    /\ pc = "analyze_query"
    /\ llm_calls = <<>>
    /\ invocations = <<>>
    /\ requests = [r \in Requests |-> NewRequest(<<>>)]

\* The request is answered without a workflow run.
RejectRequest ==
    /\ pc = "analyze_query"
    /\ \E a \in {analyze_query(http.door, http.body)} :
          /\ a.status # None
          /\ http' = [http EXCEPT !.status = a.status]
    /\ pc' = "responded"
    /\ UNCHANGED <<state, llm_calls, invocations, requests>>

\* initial_state is built and workflow_graph.invoke starts at llm.
StartWorkflow ==
    /\ pc = "analyze_query"
    /\ \E a \in {analyze_query(http.door, http.body)} :
          /\ a.status = None
          /\ state' = InitialState(a.user_query)
    /\ pc' = "llm"
    /\ UNCHANGED <<llm_calls, invocations, requests, http>>

\* workflow_graph.invoke raises: the except clause answers 500.
WorkflowRaises ==
    /\ pc \in {"llm", "tool_node"}
    /\ http' = [http EXCEPT !.status = "500", !.failed = TRUE]
    /\ pc' = "responded"
    /\ UNCHANGED <<state, llm_calls, invocations, requests>>

\* workflow_graph.invoke returns the final state: the response is built.
Respond ==
    /\ pc = END
    /\ http' = [http EXCEPT !.status = "200"]
    /\ pc' = "responded"
    /\ UNCHANGED <<state, llm_calls, invocations, requests>>

FrontDoorNext ==
    \/ RejectRequest
    \/ StartWorkflow
    \/ ModelRequests
    \/ ModelFails
    \/ Dispatch
    \/ WorkflowRaises
    \/ Respond

\* One POST /analyze exchange, from the request to the response.
FrontDoorSpec == FrontDoorInit /\ [][FrontDoorNext]_vars

(* ------------------------------ properties ---------------------------- *)

Summary == state.final_reasoning_summary
Messages == state.messages
LastMessage == Messages[Len(Messages)]

\* The model reply of the first Decision Node step, when that step is done
\* (system prompt, query and instruction precede it).
FirstReplyDone == Len(Messages) >= 4
FirstReply == Messages[4]

\* The step being taken is a Decision Node step that made a model call.
LlmStepTaken == pc = "llm" /\ Len(llm_calls') = Len(llm_calls) + 1
LastCall == llm_calls[Len(llm_calls)]
NewCall == llm_calls'[Len(llm_calls')]

\* Number of elements of a sequence that satisfy Test.
Count(seq, Test(_)) == Cardinality({i \in 1..Len(seq) : Test(seq[i])})

\* C1: whenever final_reasoning_summary is set (not None) at the end of a
\* Decision Node step, the router evaluation that follows returns END,
\* whatever the last assistant turn contains.
C1_SummarySetTerminates ==
    [][(pc = "llm" /\ state' # state /\ state'.final_reasoning_summary # NoneStr)
         => pc' = END]_vars

\* The tool-result turns of a signature that are not duplicate notes.
ResultTurns(sig) ==
    {i \in 1..Len(Messages) :
        /\ Messages[i].type = "tool"
        /\ Messages[i].content # DuplicateNote
        /\ \E j \in 1..Len(Messages) : \E k \in 1..Len(Messages[j].tool_calls) :
              /\ Messages[j].tool_calls[k].id = Messages[i].tool_call_id
              /\ Signature(Messages[j].tool_calls[k]) = sig}

RequestedSignatures ==
    UNION {{Signature(Messages[j].tool_calls[k]) : k \in 1..Len(Messages[j].tool_calls)} :
              j \in 1..Len(Messages)}

\* C2: for every signature, over all batches of the run, the capability is
\* invoked at most once and at most one non-duplicate tool-result turn is
\* appended.
C2_InvokedAtMostOnce ==
    \A sig \in RequestedSignatures :
        /\ LET IsSig(c) == c.sig = sig IN Count(invocations, IsSig) <= 1
        /\ Cardinality(ResultTurns(sig)) <= 1

\* Some model reply of the run matches the irrelevance marker table.
SomeReplyIrrelevant ==
    \E i \in 1..Len(Messages) :
        Messages[i].type = "ai" /\ IsIrrelevantReply(LowerText(Messages[i].content))

\* C3 as stated: in a terminated run in which some model reply matches the
\* irrelevance marker table, executed_tools is empty and is_irrelevant_input
\* is true.
C3_IrrelevantNeverDispatches ==
    (pc = END /\ SomeReplyIrrelevant) =>
        (state.executed_tools = <<>> /\ state.is_irrelevant_input = "True")

FirstReplyIrrelevant ==
    FirstReplyDone /\ IsIrrelevantReply(LowerText(FirstReply.content))

\* C3 amended: when the first model reply matches the irrelevance marker
\* table, is_irrelevant_input is true from then on; when that reply also
\* carries no tool-call request, the run has terminated and no capability
\* was dispatched.
C3_FirstReplyIrrelevant ==
    FirstReplyIrrelevant =>
        /\ state.is_irrelevant_input = "True"
        /\ FirstReply.tool_calls = <<>> =>
              (pc = END /\ state.executed_tools = <<>> /\ invocations = <<>>)

C3_Witness ==
    /\ pc = END /\ FirstReplyIrrelevant /\ FirstReply.tool_calls = <<>>
    /\ state.is_irrelevant_input = "True" /\ state.executed_tools = <<>>

\* C4: once is_irrelevant_input is true it stays true, and no capability is
\* invoked afterwards.
C4_IrrelevantSticky ==
    [][state.is_irrelevant_input = "True" =>
          (state'.is_irrelevant_input = "True" /\ invocations' = invocations)]_vars

\* C5 as stated: where is_irrelevant_input is true, the three capability
\* verdicts are None.
C5_IrrelevantVerdictsNone ==
    state.is_irrelevant_input = "True" =>
        (state.is_fraud_email = None /\ state.is_fraud_sms = None /\ state.is_fraud_url = None)

\* The capability was dispatched: one of its signatures is in executed_tools.
Dispatched(name) ==
    \E i \in 1..Len(state.executed_tools) : state.executed_tools[i][1] = name

\* C5 amended: where is_irrelevant_input is true, a capability verdict is
\* not None only if that capability was dispatched; no verdict of an
\* irrelevant run comes from the prose of a reply.
C5_IrrelevantVerdictsFromTools ==
    state.is_irrelevant_input = "True" =>
        /\ state.is_fraud_email # None => Dispatched("check_fraud_email_tool")
        /\ state.is_fraud_sms # None => Dispatched("check_fraud_sms_tool")
        /\ state.is_fraud_url # None => Dispatched("check_fraud_url_tool")

C5_Witness ==
    /\ pc = END /\ state.is_irrelevant_input = "True"
    /\ state.is_fraud_sms # None /\ state.is_fraud_url = None
    /\ Dispatched("check_fraud_sms_tool")

SomeCallSucceeded ==
    \/ \E i \in 1..Len(llm_calls) : llm_calls[i].ok
    \/ \E i \in 1..Len(invocations) : invocations[i].ok

\* C6: a run in which every model call and every capability invocation
\* fails is over after its first Decision Node step: the router returned
\* END, final_reasoning_summary is the error sentence and nothing was
\* dispatched.
C6_TotalFailureTerminates ==
    ~SomeCallSucceeded =>
        \/ pc = "llm" /\ llm_calls = <<>> /\ Messages = <<>>
        \/ /\ pc = END /\ Summary = AnalysisErrorSummary
           /\ Len(llm_calls) = 1 /\ invocations = <<>>

C6_Witness ==
    /\ pc = END /\ ~SomeCallSucceeded /\ llm_calls # <<>>
    /\ Summary = AnalysisErrorSummary

\* C7: a capability call that failed is not invoked again.
C7_FailedCallNotRetried ==
    \A i \in 1..Len(invocations) : \A j \in 1..Len(invocations) :
        (i < j /\ ~invocations[i].ok) => invocations[j].sig # invocations[i].sig

\* The step is a normal model turn that succeeded, its reply carries no
\* tool-call request, and final_reasoning_summary was unset before it.
TextTurnTaken ==
    /\ LlmStepTaken
    /\ NewCall = [bound |-> "tools", ok |-> TRUE]
    /\ state'.messages[Len(state'.messages)].tool_calls = <<>>
    /\ ~TruthyS(state.final_reasoning_summary)

NewReplyText == LowerText(state'.messages[Len(state'.messages)].content)

\* C8 as stated: after such a turn final_reasoning_summary is set.
C8_ExtractionTotal ==
    [][TextTurnTaken => state'.final_reasoning_summary # NoneStr]_vars

\* C8 amended: after such a turn final_reasoning_summary is the text after
\* the marker when the reply contains the marker, the fixed sentence when
\* the reply is flagged irrelevant in this step without a marker, and is
\* left as it was otherwise (there is no last-paragraph fallback).
C8_ExtractionOnlyOnMarker ==
    [][TextTurnTaken =>
         state'.final_reasoning_summary =
            IF HasMarker(NewReplyText) THEN AfterMarker(NewReplyText)
            ELSE IF state.is_irrelevant_input # "True" /\ state'.is_irrelevant_input = "True"
                 THEN IrrelevantDefaultSummary
            ELSE state.final_reasoning_summary]_vars

C8_Witness ==
    /\ pc = END /\ Summary = NoneStr /\ llm_calls # <<>>
    /\ LastCall = [bound |-> "tools", ok |-> TRUE]
    /\ LastMessage.type = "ai" /\ LastMessage.tool_calls = <<>>
    /\ Contains(LastMessage.content, "\n\n") /\ Len(Strip(LastParagraph(LastMessage.content))) > 0

\* The effect of the news-verification branch: the latch is set, the
\* verification prompt and one assistant turn are appended (no nudge), and
\* the one model call of the step has no tools bound.
VerificationBranchTaken ==
    /\ state'.news_verification_requested = "True"
    /\ Len(state'.messages) = Len(state.messages) + 2
    /\ state'.messages[Len(state.messages) + 1] = SystemMessage(VerificationPrompt)
    /\ state'.messages[Len(state.messages) + 2].type = "ai"
    /\ Len(llm_calls') = Len(llm_calls) + 1
    /\ NewCall.bound = "plain"

\* C9 as stated: a non-bootstrap step entered with fetched_news not None
\* (the empty mapping included), is_fake_news None and the latch not set
\* takes the news-verification branch.
C9_TriggerOnAnyFetch ==
    [][(pc = "llm" /\ state' # state /\ Branch(state) # "bootstrap"
          /\ state.fetched_news # "None" /\ state.is_fake_news = None
          /\ ~TruthyB(state.news_verification_requested))
         => VerificationBranchTaken]_vars

\* C9 amended: such a step takes the news-verification branch when
\* fetched_news is a non-empty mapping; with an empty mapping it makes a
\* tool-enabled model call instead.
C9_TriggerOnNonEmptyFetch ==
    [][(pc = "llm" /\ state' # state /\ Branch(state) # "bootstrap"
          /\ state.fetched_news # "None" /\ state.is_fake_news = None
          /\ ~TruthyB(state.news_verification_requested))
         => IF state.fetched_news = "Empty"
            THEN Len(llm_calls') = Len(llm_calls) + 1 /\ NewCall.bound = "tools"
                 /\ state'.news_verification_requested = state.news_verification_requested
            ELSE VerificationBranchTaken]_vars

C9_Witness ==
    /\ state.fetched_news = "Articles" /\ state.news_verification_requested = "True"
    /\ llm_calls # <<>> /\ LastCall.bound = "plain"
    /\ \E i \in 1..Len(Messages) : Messages[i] = SystemMessage(VerificationPrompt)
    /\ \A i \in 1..Len(Messages) : Messages[i] # SystemMessage(ToolResultNudge)

IsPlainCall(c) == c.bound = "plain"
IsFetchSuccess(c) == c.ok /\ c.sig[1] = "fetch_real_time_news_tool"

\* C10: the verification model call is made at most once for each
\* successful fetch_real_time_news_tool dispatch.
C10_VerificationOncePerFetch ==
    Count(llm_calls, IsPlainCall) <= Count(invocations, IsFetchSuccess)

C10_Witness ==
    /\ pc = END /\ Count(llm_calls, IsPlainCall) = 1
    /\ Count(invocations, IsFetchSuccess) = 1
    /\ state.news_verification_requested = "True"

\* The batch being dispatched, and the invocations a step adds.
PendingBatch == state.messages[Len(state.messages)].tool_calls
NewInvocations == SubSeq(invocations', Len(invocations) + 1, Len(invocations'))

FetchRequested ==
    \E k \in 1..Len(PendingBatch) : PendingBatch[k].name = "fetch_real_time_news_tool"

\* C11 as stated: every Tool Dispatcher step whose batch holds a
\* fetch_real_time_news_tool request leaves is_fake_news None and
\* news_verification_requested False, also when the request is a duplicate
\* or its invocation fails.
C11_FetchAlwaysResets ==
    [][(pc = "tool_node" /\ FetchRequested) =>
          (state'.is_fake_news = None /\ state'.news_verification_requested = "False")]_vars

\* C11 amended: a Tool Dispatcher step with a successful
\* fetch_real_time_news_tool invocation leaves is_fake_news None and
\* news_verification_requested False; a step without one (duplicate
\* request, failed invocation, other capabilities) changes neither field
\* nor fetched_news.
C11_FetchSuccessResets ==
    [][pc = "tool_node" =>
          IF \E i \in 1..Len(NewInvocations) : IsFetchSuccess(NewInvocations[i])
          THEN state'.is_fake_news = None /\ state'.news_verification_requested = "False"
          ELSE /\ state'.is_fake_news = state.is_fake_news
               /\ state'.news_verification_requested = state.news_verification_requested
               /\ state'.fetched_news = state.fetched_news]_vars

C11_Witness ==
    /\ pc = "llm" /\ invocations # <<>>
    /\ IsFetchSuccess(invocations[Len(invocations)])
    /\ state.is_fake_news = None /\ state.news_verification_requested = "False"
    /\ state.fetched_news # "None"

\* The step is a verification model call that succeeded.
VerificationAnswered ==
    LlmStepTaken /\ NewCall = [bound |-> "plain", ok |-> TRUE]

FakeMarkers == {"fake", "false", "not supported", "no evidence"}
LegitimateMarkers == {"legitimate", "supported", "confirmed", "real"}

\* C12: after a successful verification model call is_fake_news is False
\* exactly when the lower-cased reply contains a legitimate marker and no
\* fake marker, and True in every other case; final_reasoning_summary is
\* not None afterwards.
C12_NewsClassification ==
    [][VerificationAnswered =>
          /\ state'.is_fake_news \in {"True", "False"}
          /\ state'.is_fake_news = "False" <=>
                (ContainsAny(NewReplyText, LegitimateMarkers)
                   /\ ~ContainsAny(NewReplyText, FakeMarkers))
          /\ state'.final_reasoning_summary # NoneStr]_vars

C12_Witness ==
    /\ pc = END /\ llm_calls # <<>> /\ LastCall = [bound |-> "plain", ok |-> TRUE]
    /\ state.is_fake_news = "False" /\ Summary # NoneStr
    /\ Contains(LowerText(LastMessage.content), "legitimate")

VerdictFields == {"is_fraud_email", "is_fraud_sms", "is_fraud_url"}

\* C13: once a capability verdict (is_fraud_email, is_fraud_sms or
\* is_fraud_url) is True or False, no later step of the run changes it.
C13_VerdictFinal ==
    [][\A f \in VerdictFields :
          state[f] \in {"True", "False"} => state'[f] = state[f]]_vars

\* C14: once final_reasoning_summary holds a value (is not None), no later
\* step assigns it again.
C14_SummarySetOnce ==
    [][state.final_reasoning_summary # NoneStr =>
          state'.final_reasoning_summary = state.final_reasoning_summary]_vars

\* The audit entries a step adds.
NewActions ==
    SubSeq(state'.list_of_actions, Len(state.list_of_actions) + 1, Len(state'.list_of_actions))

IsDetectionEntry(a) ==
    \/ a = <<"Detected irrelevant input not related to fraud detection">>
    \/ a[1] = "Detected input types"

\* C15: once input_types is non-empty, no later step changes it, and
\* neither irrelevance detection nor content-type detection runs again
\* (is_irrelevant_input keeps its value and no detection entry is logged).
C15_TypesPopulatedOnce ==
    [][state.input_types # {} =>
          /\ state'.input_types = state.input_types
          /\ state'.is_irrelevant_input = state.is_irrelevant_input
          /\ \A i \in 1..Len(NewActions) : ~IsDetectionEntry(NewActions[i])]_vars

C15_Witness ==
    /\ pc = END /\ state.input_types = {"news"} /\ Len(llm_calls) >= 2
    /\ LastCall = [bound |-> "tools", ok |-> TRUE]
    /\ LastMessage.type = "ai"
    /\ IsIrrelevantReply(LowerText(LastMessage.content))
    /\ state.is_irrelevant_input # "True"

\* The step is one Decision Node step / one Tool Dispatcher step.
IsDecisionStep ==
    Len(llm_calls') = Len(llm_calls) + 1 /\ invocations' = invocations

IsDispatcherStep ==
    /\ llm_calls' = llm_calls
    /\ Len(state'.messages) > Len(state.messages)
    /\ \A i \in (Len(state.messages) + 1)..Len(state'.messages) :
          state'.messages[i].type = "tool"

\* C16: the run starts with a Decision Node step; every Decision Node step
\* is followed by the router evaluation on the state it left, whose result
\* alone is the next node; a Tool Dispatcher step happens only when the
\* router returned tool_node and is followed by a Decision Node step; no
\* step happens after the router returned END.
C16_ControlFlow ==
    /\ pc = "llm" /\ llm_calls = <<>> /\ invocations = <<>>
    /\ [][/\ pc # END
          /\ pc = "llm" => (IsDecisionStep /\ pc' = should_continue(state'))
          /\ pc = "tool_node" => (IsDispatcherStep /\ pc' = "llm")
          /\ IsDispatcherStep => pc = "tool_node"]_vars

C16_Witness ==
    /\ pc = END /\ Len(llm_calls) = 2 /\ Len(invocations) = 1
    /\ LastMessage.type = "ai"
    /\ \E i \in 1..Len(Messages) : Messages[i].type = "tool"

\* The outcome of the model call of the step being taken, read back from
\* the call record and the assistant turn the step appended.
TakenOutcome ==
    IF NewCall.ok
    THEN Reply(state'.messages[Len(state'.messages)].content,
               state'.messages[Len(state'.messages)].tool_calls)
    ELSE Failure

FailureLogged(name) ==
    \E k \in 1..Len(state.list_of_actions) :
        state.list_of_actions[k] = <<"Error executing", name>>

\* C18: whenever the collaborator behind a capability raises, the
\* invocation returns (the run goes on), the result is False (checks) or
\* the empty mapping (fetch), and an entry recording the failure is in
\* list_of_actions.
C18_FailureConverted ==
    \A i \in 1..Len(invocations) :
        invocations[i].cause \in RaisingCauses =>
            /\ invocations[i].ok
            /\ invocations[i].result \in {"False", "Empty"}
            /\ FailureLogged(invocations[i].sig[1])

\* The step of request r is a step of r alone: a Decision Node step or a
\* Tool Dispatcher step computed from the record of r and nothing else.
OwnStep(r) ==
    \/ /\ requests[r].pc = "llm"
       /\ \E out \in ServeOutcomes(requests[r].st, Len(requests[r].llm_calls) + 1) :
             requests'[r] = AfterLlm(requests[r], requests[r].st, out)
    \/ /\ requests[r].pc = "tool_node"
       /\ \E batch \in {requests[r].st.messages[Len(requests[r].st.messages)].tool_calls} :
          \E outs \in [1..Len(batch) -> AllOutcomes] :
             /\ Admissible([st |-> requests[r].st, results |-> <<>>, calls |-> <<>>],
                           batch, outs, 1)
             /\ requests'[r] = AfterDispatch(requests[r], requests[r].st, outs)

\* C19: in any interleaving of the steps of two requests, a step changes
\* the record of one request only, and the new record is what the step
\* makes of that request's own state: no field value of the other request
\* enters it.
C19_RequestsIndependent ==
    [][\A r \in Requests :
          requests'[r] # requests[r] =>
              /\ \A o \in Requests \ {r} : requests'[o] = requests[o]
              /\ OwnStep(r)]_vars

C19_Witness ==
    /\ requests[1].invocations # <<>> /\ requests[2].invocations # <<>>
    /\ requests[1].invocations[1].ok /\ requests[2].invocations[1].ok
    /\ requests[1].invocations[1].sig = requests[2].invocations[1].sig
    /\ requests[1].st.executed_tools = <<requests[1].invocations[1].sig>>
    /\ requests[2].st.executed_tools = <<requests[2].invocations[1].sig>>

\* The URLs of a query in full: each scheme followed by a host, with every
\* piece up to the next blank (path and query string included).
RECURSIVE UrlEnd(_, _)
UrlEnd(q, i) == IF i <= Len(q) /\ q[i] # " " THEN UrlEnd(q, i + 1) ELSE i - 1

RECURSIVE FullUrlsFrom(_, _)
FullUrlsFrom(q, i) ==
    IF i > Len(q) THEN <<>>
    ELSE IF IsScheme(q[i]) /\ i < Len(q) /\ q[i + 1] \in UrlChars
         THEN <<SubSeq(q, i, UrlEnd(q, i + 1))>> \o FullUrlsFrom(q, UrlEnd(q, i + 1) + 1)
         ELSE FullUrlsFrom(q, i + 1)

\* C20: after the bootstrap url_list holds every http(s) URL of the query in
\* full, path and query-string characters included, in order of
\* occurrence with duplicates.
C20_UrlsInFull ==
    Messages # <<>> => state.url_list = FullUrlsFrom(state.user_query, 1)

\* The invocations of check_fraud_url_tool that returned.
UrlChecks ==
    {i \in 1..Len(invocations) :
        invocations[i].ok /\ invocations[i].sig[1] = "check_fraud_url_tool"}

\* C21: the result of check_fraud_url_tool is True exactly when the
\* per-URL verdicts hold strictly more True than False; ties and the empty
\* list give False.
C21_MajorityVote ==
    \A i \in UrlChecks :
        /\ invocations[i].result \in {"True", "False"}
        /\ invocations[i].result = "True" <=>
              CountOf(invocations[i].verdicts, "True")
                 > CountOf(invocations[i].verdicts, "False")

C21_Witness ==
    \E i \in UrlChecks :
        /\ invocations[i].verdicts = <<"False", "True", "True">>
        /\ invocations[i].result = "True"
        /\ state.is_fraud_url = "True"

\* C22: a request whose user_query is missing or empty (no JSON body
\* included) is answered 400, no Conversation State is built and no
\* workflow step runs for it; a failure inside the workflow is answered 500.
C22_FrontDoor ==
    /\ http.body.kind \in {"NoBody", "Null", "Missing", "Empty"} =>
          /\ state = NoState /\ llm_calls = <<>> /\ invocations = <<>>
          /\ http.status \in {None, "400"}
    /\ http.failed => http.status = "500"

\* The turns a step adds.
NewMessages == SubSeq(state'.messages, Len(state.messages) + 1, Len(state'.messages))

IsFailedCall(c) == ~c.ok
IsErrorTurn(m) == m.type = "tool" /\ m.content = <<"Tool error">>
IsErrorEntry(a) == a[1] = "Error executing"

\* The fields a failed or a duplicate request leaves alone.
FrameFields ==
    {"is_fraud_email", "is_fraud_sms", "is_fraud_url", "fetched_news", "is_fake_news",
     "news_verification_requested", "executed_tools", "final_reasoning_summary"}

\* C23: in a Tool Dispatcher step each invocation that raises appends
\* exactly one error tool-result turn and one audit entry, every request of
\* the batch still gets its tool-result turn, and when no invocation of the
\* step succeeded the verdicts, fetched_news, is_fake_news, the latch,
\* executed_tools and final_reasoning_summary are unchanged.
C23_FailureFrame ==
    [][pc = "tool_node" =>
          /\ Count(NewMessages, IsErrorTurn) = Count(NewInvocations, IsFailedCall)
          /\ Count(NewActions, IsErrorEntry) = Count(NewInvocations, IsFailedCall)
          /\ Len(NewMessages) = Len(PendingBatch)
          /\ (\A i \in 1..Len(NewInvocations) : ~NewInvocations[i].ok) =>
                \A f \in FrameFields : state'[f] = state[f]]_vars

C23_Witness ==
    /\ pc = "llm" /\ Len(invocations) = 1 /\ ~invocations[1].ok
    /\ invocations[1].sig[1] = "check_fraud_url_tool"
    /\ Len(Messages) >= 2 /\ IsErrorTurn(Messages[Len(Messages) - 1])
    /\ LastMessage.type = "tool" /\ LastMessage.content[1] = "Error: Unknown tool"
    /\ state.is_fraud_url = None /\ state.executed_tools = <<>>
    /\ state.list_of_actions[Len(state.list_of_actions) - 1] = <<"Error executing", "check_fraud_url_tool">>

\* Request k of the batch being dispatched repeats a signature that was
\* executed before the step.
IsRepeat(k) == InList(Signature(PendingBatch[k]), state.executed_tools)

IsDuplicateTurn(m) == m.type = "tool" /\ m.content = DuplicateNote
IsUnknownRequest(c) == c.name \notin ToolNames

\* C24: in a Tool Dispatcher step a request whose signature is already in
\* executed_tools gets exactly one informational tool-result turn (with
\* its call id, at its place) and no invocation; a batch of such requests
\* leaves the verdicts, fetched_news, is_fake_news, the latch,
\* executed_tools, the summary and list_of_actions unchanged.
C24_DuplicateFrame ==
    [][pc = "tool_node" =>
          /\ Len(NewMessages) = Len(PendingBatch)
          /\ \A k \in 1..Len(PendingBatch) :
                IsRepeat(k) => NewMessages[k] = ToolMessage(DuplicateNote, PendingBatch[k].id)
          /\ Count(NewMessages, IsDuplicateTurn) + Len(NewInvocations)
                + Count(PendingBatch, IsUnknownRequest) = Len(PendingBatch)
          /\ (\A k \in 1..Len(PendingBatch) : IsRepeat(k)) =>
                /\ NewInvocations = <<>>
                /\ \A f \in FrameFields \cup {"list_of_actions"} : state'[f] = state[f]]_vars

C24_Witness ==
    /\ pc = "llm" /\ Len(llm_calls) = 2 /\ Len(invocations) = 1
    /\ invocations[1].sig[1] = "fetch_real_time_news_tool"
    /\ IsDuplicateTurn(LastMessage)
    /\ Len(state.executed_tools) = 1
    /\ state.fetched_news = "Empty" /\ state.news_verification_requested = "False"

\* The places of the batch whose request named the capability and was
\* answered with a verdict.
Answered(name) ==
    {k \in 1..Len(PendingBatch) :
        /\ PendingBatch[k].name = name
        /\ NewMessages[k].content \in {<<"True">>, <<"False">>}}

MaxOf(S) == CHOOSE k \in S : \A j \in S : j <= k

CheckTools ==
    {<<"check_fraud_url_tool", "is_fraud_url">>, <<"check_fraud_sms_tool", "is_fraud_sms">>,
     <<"check_fraud_email_tool", "is_fraud_email">>}

\* C25: a Decision Node step that ends with an assistant reply carrying
\* requests, the run not flagged irrelevant, is followed by the Tool
\* Dispatcher; the dispatcher step appends one tool-result turn per
\* request, in request order and with the request's call id, makes no
\* model call, and leaves each capability verdict at the result of the
\* last request of the batch that was answered for it.
C25_BatchInOrder ==
    [][/\ (pc = "llm" /\ state'.messages # state.messages
             /\ state'.messages[Len(state'.messages)].type = "ai"
             /\ state'.messages[Len(state'.messages)].tool_calls # <<>>
             /\ state'.is_irrelevant_input # "True") => pc' = "tool_node"
       /\ pc = "tool_node" =>
             /\ llm_calls' = llm_calls /\ pc' = "llm"
             /\ Len(NewMessages) = Len(PendingBatch)
             /\ \A k \in 1..Len(PendingBatch) :
                   /\ NewMessages[k].type = "tool"
                   /\ NewMessages[k].tool_call_id = PendingBatch[k].id
             /\ \A t \in CheckTools :
                   Answered(t[1]) # {} =>
                       state'[t[2]] = NewMessages[MaxOf(Answered(t[1]))].content[1]]_vars

C25_Witness ==
    /\ pc = "llm" /\ Len(invocations) = 3 /\ Len(Messages) >= 3
    /\ \A i \in 1..3 : invocations[i].ok
    /\ invocations[1].sig = <<"check_fraud_url_tool", ":", "a">>
    /\ invocations[3].sig = <<"check_fraud_url_tool", ":", "b">>
    /\ Messages[Len(Messages) - 2].content = <<"True">>
    /\ Messages[Len(Messages)].content = <<"False">>
    /\ state.is_fraud_url = "False"

\* The step is a verification model call that raised.
VerificationFailed ==
    LlmStepTaken /\ NewCall = [bound |-> "plain", ok |-> FALSE]

\* C26: when the verification model call raises, is_fake_news becomes
\* True, final_reasoning_summary the error sentence, the step appends the
\* verification prompt and one assistant turn and logs the failure, the
\* latch is True, no second model call is made, and the router returns END.
C26_VerificationFailure ==
    [][VerificationFailed =>
          /\ state'.is_fake_news = "True"
          /\ state'.final_reasoning_summary = VerificationErrorSummary
          /\ NewMessages = <<SystemMessage(VerificationPrompt),
                             AIMessage(VerificationErrorReply, <<>>)>>
          /\ NewActions = << <<"Requesting news verification">>,
                             <<"Error during news verification">> >>
          /\ state'.news_verification_requested = "True"
          /\ Len(llm_calls') = Len(llm_calls) + 1
          /\ pc' = END]_vars

C26_Witness ==
    /\ pc = END /\ llm_calls # <<>> /\ LastCall = [bound |-> "plain", ok |-> FALSE]
    /\ state.is_fake_news = "True" /\ Summary = VerificationErrorSummary
    /\ state.news_verification_requested = "True"
    /\ LastMessage = AIMessage(VerificationErrorReply, <<>>)

\* The step is a normal model turn whose model call raised.
TurnFailed ==
    LlmStepTaken /\ NewCall = [bound |-> "tools", ok |-> FALSE]

IsAssistantTurn(m) == m.type = "ai"

\* The fields a failed normal turn leaves alone.
TurnFrameFields ==
    {"is_fraud_email", "is_fraud_sms", "is_fraud_url", "fetched_news", "is_fake_news",
     "news_verification_requested", "is_irrelevant_input", "input_types", "executed_tools"}

\* C27: when the model call of a normal turn raises, exactly one assistant
\* turn is appended, the retry reply without tool calls, as the last turn;
\* final_reasoning_summary is the error sentence; the verdicts, the news
\* fields, is_irrelevant_input, input_types and executed_tools are
\* unchanged; and the router returns END.
C27_TurnFailure ==
    [][TurnFailed =>
          /\ Count(NewMessages, IsAssistantTurn) = 1
          /\ state'.messages[Len(state'.messages)] = AIMessage(AnalysisErrorReply, <<>>)
          /\ state'.final_reasoning_summary = AnalysisErrorSummary
          /\ \A f \in TurnFrameFields : state'[f] = state[f]
          /\ pc' = END]_vars

C27_Witness ==
    /\ pc = END /\ Len(llm_calls) >= 2 /\ LastCall = [bound |-> "tools", ok |-> FALSE]
    /\ LastMessage = AIMessage(AnalysisErrorReply, <<>>)
    /\ Summary = AnalysisErrorSummary
    /\ state.is_fraud_sms # None /\ state.executed_tools # <<>>

\* One of the router cases that come before the last one applies: no
\* turns; irrelevant with a summary; the news trigger; no assistant turn;
\* requests in the last turn; a summary; news detected, fetched and not
\* judged.
EarlierCase ==
    \/ Messages = <<>>
    \/ state.is_irrelevant_input = "True" /\ TruthyS(Summary)
    \/ NewsPending(state)
    \/ \A i \in 1..Len(Messages) : Messages[i].type # "ai"
    \/ LastMessage.type = "ai" /\ LastMessage.tool_calls # <<>>
    \/ TruthyS(Summary)
    \/ "news" \in state.input_types /\ state.is_fake_news = None
          /\ TruthyNews(state.fetched_news)

\* Every detected type among url, email, sms, news has a verdict.
DetectedTypesJudged ==
    /\ "url" \in state.input_types => state.is_fraud_url # None
    /\ "email" \in state.input_types => state.is_fraud_email # None
    /\ "sms" \in state.input_types => state.is_fraud_sms # None
    /\ "news" \in state.input_types => state.is_fake_news # None

Routed == pc # "should_continue"

ConclusionExtracted ==
    /\ LlmStepTaken
    /\ \E i \in 1..Len(NewActions) :
          NewActions[i] = <<"Extracted final reasoning summary from conclusion section">>

\* The keyword sets of the capabilities.
VerdictKeywords ==
    {[type |-> "url", field |-> "is_fraud_url",
      positive |-> {"fraud", "malicious", "phishing"}, negative |-> {"safe", "legitimate"}],
     [type |-> "sms", field |-> "is_fraud_sms",
      positive |-> {"fraud", "scam"}, negative |-> {"safe", "legitimate"}],
     [type |-> "email", field |-> "is_fraud_email",
      positive |-> {"fraud", "phishing", "scam"}, negative |-> {"safe", "legitimate"}]}

\* C29: in the step that extracts a conclusion from a reply without
\* requests, each capability among url, sms, email that is in input_types
\* and whose verdict is None gets True when the conclusion contains one of
\* its positive keywords, False when it contains a negative and no
\* positive keyword, and stays None otherwise; the other verdicts are
\* unchanged.
C29_ProseVerdicts ==
    [][ConclusionExtracted =>
          /\ state'.messages[Len(state'.messages)].tool_calls = <<>>
          /\ \A c \in VerdictKeywords :
                state'[c.field] =
                   IF c.type \in state'.input_types /\ state[c.field] = None
                   THEN IF ContainsAny(state'.final_reasoning_summary, c.positive) THEN "True"
                        ELSE IF ContainsAny(state'.final_reasoning_summary, c.negative)
                             THEN "False"
                        ELSE None
                   ELSE state[c.field]]_vars

C29_Witness ==
    /\ pc = END /\ state.input_types = {"url", "sms"}
    /\ Summary = <<"scam">>
    /\ state.is_fraud_sms = "True" /\ state.is_fraud_url = "False"
    /\ state.is_fraud_email = None
    /\ Dispatched("check_fraud_url_tool") /\ ~Dispatched("check_fraud_sms_tool")

\* The capabilities with their verdict fields.
CapabilityFields ==
    {<<"check_fraud_url_tool", "is_fraud_url">>, <<"check_fraud_sms_tool", "is_fraud_sms">>,
     <<"check_fraud_email_tool", "is_fraud_email">>}

\* The audit log holds an 'Executed' entry of the capability.
ExecutionLogged(name) ==
    \E k \in 1..Len(state.list_of_actions) :
        /\ state.list_of_actions[k][1] = "Executed"
        /\ state.list_of_actions[k][2] = name

\* The verdict of the capability is set with no tool backing: no signature
\* of it in executed_tools and no 'Executed' entry in the audit log.
Unbacked(c) ==
    /\ state[c[2]] # None
    /\ ~Dispatched(c[1])
    /\ ~ExecutionLogged(c[1])

\* C30: a capability verdict without tool backing is reachable in a
\* terminated run (C30_Witness), and every such verdict is one inferred
\* from the conclusion of a reply: the summary is set and the audit log
\* holds the 'Updated ... based on conclusion' entry with that verdict.
C30_UnbackedFromProse ==
    \A c \in CapabilityFields :
        Unbacked(c) =>
            /\ Summary # NoneStr
            /\ \E k \in 1..Len(state.list_of_actions) :
                  state.list_of_actions[k] =
                     <<"Updated", c[2], state[c[2]], "based on conclusion">>

C30_Witness ==
    /\ pc = END
    /\ Unbacked(<<"check_fraud_url_tool", "is_fraud_url">>)
    /\ state.is_fraud_url = "True"
    /\ state.executed_tools = <<>> /\ invocations = <<>>

\* The step is a normal turn that succeeded with input_types still empty,
\* and its reply matches the irrelevance table.
IrrelevantReplyTaken ==
    /\ LlmStepTaken
    /\ NewCall = [bound |-> "tools", ok |-> TRUE]
    /\ state.input_types = {}
    /\ IsIrrelevantReply(NewReplyText)

\* C31: the step whose reply matches the irrelevance table (input_types
\* still empty) sets is_irrelevant_input True, input_types {irrelevant} and
\* final_reasoning_summary to a non-empty value, and the router evaluation
\* that follows returns END.
C31_IrrelevantTerminates ==
    [][IrrelevantReplyTaken =>
          /\ state'.is_irrelevant_input = "True"
          /\ state'.input_types = {"irrelevant"}
          /\ TruthyS(state'.final_reasoning_summary)
          /\ pc' = END]_vars

IsNudge(m) == m = SystemMessage(ToolResultNudge)

\* C32: a Decision Node step that follows a Tool Dispatcher step (any step
\* but the first of the run) appends, when it makes the tool-enabled call,
\* exactly one instructional system turn and then the assistant turn; when
\* it takes the news-verification branch it appends no such turn.
C32_NudgeAfterTools ==
    [][(pc = "llm" /\ Len(llm_calls) > 0
          /\ Len(llm_calls') = Len(llm_calls) + 1) =>
          IF NewCall.bound = "tools"
          THEN /\ Count(NewMessages, IsNudge) = 1
               /\ Len(NewMessages) = 2
               /\ IsNudge(NewMessages[1]) /\ NewMessages[2].type = "ai"
          ELSE Count(NewMessages, IsNudge) = 0]_vars

C32_Witness ==
    /\ Len(llm_calls) = 2 /\ LastCall = [bound |-> "tools", ok |-> TRUE]
    /\ Len(Messages) >= 3
    /\ LastMessage.type = "ai"
    /\ IsNudge(Messages[Len(Messages) - 1])
    /\ Messages[Len(Messages) - 2].type = "tool"


IsPrefix(p, q) == Len(p) <= Len(q) /\ SubSeq(q, 1, Len(p)) = p

IsSystemPrompt(m) == m = SystemMessage(SYSTEM_PROMPT)

\* C33: every step of a run keeps the previous messages as a prefix of the
\* new messages and the previous list_of_actions as a prefix of the new one,
\* and every entry of the previous executed_tools is in the new one.
C33_AppendOnly ==
    [][/\ IsPrefix(state.messages, state'.messages)
       /\ IsPrefix(state.list_of_actions, state'.list_of_actions)
       /\ \A i \in 1..Len(state.executed_tools) :
              InList(state.executed_tools[i], state'.executed_tools)]_vars

\* Both node kinds have run and each record has grown past its first entries:
\* a second Decision Node step after a dispatch that executed a capability.
C33_Witness ==
    /\ Len(llm_calls) = 2
    /\ Len(state.executed_tools) >= 1
    /\ Len(state.messages) >= 7
    /\ Len(state.list_of_actions) >= 3
    /\ state.messages[1] = SystemMessage(SYSTEM_PROMPT)
    /\ Count(state.messages, IsSystemPrompt) = 1


\* C34: every Decision Node step makes exactly one model call: the call
\* without tools when the step takes the news-verification branch, the
\* tool-enabled call otherwise.
C34_OneModelCall ==
    [][pc = "llm" =>
          /\ Len(llm_calls') = Len(llm_calls) + 1
          /\ SubSeq(llm_calls', 1, Len(llm_calls)) = llm_calls
          /\ NewCall.bound = (IF Branch(state) = "verification" THEN "plain" ELSE "tools")]_vars

\* A run that made one call of each kind, one per Decision Node step.
C34_Witness ==
    /\ Len(llm_calls) = 2
    /\ llm_calls[1].bound = "tools"
    /\ llm_calls[2].bound = "plain"
    /\ Count(state.messages, IsAssistantTurn) = 2


\* C35: the state the router evaluates (the one a Decision Node step
\* leaves) has a non-empty messages list whose last turn is an assistant turn
\* appended by that step, so the router's tests `not messages`,
\* `not last_ai_message` and `isinstance(messages[-1], ToolMessage)` are false.
C35_RouterSeesNewAssistantTurn ==
    [][pc = "llm" =>
          /\ state'.messages # <<>>
          /\ Len(state'.messages) > Len(state.messages)
          /\ state'.messages[Len(state'.messages)].type = "ai"
          /\ LastAI(state'.messages) = Len(state'.messages)
          /\ LastAI(state'.messages) # 0
          /\ state'.messages[Len(state'.messages)].type # "tool"]_vars

\* The router has evaluated a log that holds tool results and ends with the
\* assistant turn of the second Decision Node step.
C35_Witness ==
    /\ Len(llm_calls) = 2
    /\ pc \in {"tool_node", END}
    /\ LastMessage.type = "ai"
    /\ \E i \in 1..Len(Messages) : Messages[i].type = "tool"


\* C36: the router never returns "llm": the state a Decision Node step
\* leaves is not news-pending and the route is tool_node or END, and a
\* Decision Node step is entered again only from the Tool Dispatcher.
C36_RouterNeverLoops ==
    [][/\ pc = "llm" => /\ ~NewsPending(state')
                       /\ should_continue(state') \in {"tool_node", END}
                       /\ pc' \in {"tool_node", END}
       /\ pc' = "llm" => pc = "tool_node"]_vars

\* The case where the loop could arise: articles are stored, the
\* verification step has run, and the router ended the run.
C36_Witness ==
    /\ TruthyNews(state.fetched_news)
    /\ "news" \in state.input_types
    /\ state.news_verification_requested = "True"
    /\ ~TruthyS(state.final_reasoning_summary)
    /\ LastCall.bound = "plain"
    /\ pc = END


\* A verification call has been made in this run.
VerificationCalled == \E i \in 1..Len(llm_calls) : llm_calls[i].bound = "plain"

\* C37: a news-verification step is the last step of its run: the call
\* without tools is the last model call, the router has returned END, and
\* no step (model call or dispatch) is taken from then on.
C37_VerificationIsLast ==
    /\ [](\A i \in 1..Len(llm_calls) :
            llm_calls[i].bound = "plain" => (i = Len(llm_calls) /\ pc = END))
    /\ [][~VerificationCalled]_vars

\* The verification step ended the run while the verdicts of the three
\* checks are still None.
C37_Witness ==
    /\ VerificationCalled
    /\ pc = END
    /\ state.is_fake_news # None
    /\ state.is_fraud_url = None
    /\ state.is_fraud_sms = None
    /\ state.is_fraud_email = None


\* C38: is_irrelevant_input is true exactly when input_types is
\* {irrelevant}; a reply that matches both the irrelevance table and type
\* keywords stores irrelevant alone.
C38_IrrelevantIffType ==
    /\ [](TruthyB(state.is_irrelevant_input) <=> state.input_types = {"irrelevant"})
    /\ [](("irrelevant" \in state.input_types) => state.input_types = {"irrelevant"})
    /\ [][(IrrelevantReplyTaken /\ DetectTypes(NewReplyText) # {}) =>
              (state'.input_types = {"irrelevant"} /\ TruthyB(state'.is_irrelevant_input))]_vars

\* The first reply matched the irrelevance table and a type keyword, and
\* irrelevant alone was stored.
C38_Witness ==
    /\ FirstReplyDone
    /\ IsIrrelevantReply(LowerText(FirstReply.content))
    /\ DetectTypes(LowerText(FirstReply.content)) # {}
    /\ state.input_types = {"irrelevant"}
    /\ TruthyB(state.is_irrelevant_input)

====
